---- MODULE Spec2Model ----
(***************************************************************************)
(* A model of the davies cave-survey library:                              *)
(*   - davies/event.py            the per-instance observer utility        *)
(*   - davies/pockettopo          the duplicate-merging survey             *)
(*   - davies/compass             shots, surveys, the survey serializer,   *)
(*                                the survey-string and data-file parsers  *)
(* Numbers are exact rationals <<n, d>>; an absent value (Python None) is  *)
(* the empty tuple; text is a sequence of one-character strings.           *)
(***************************************************************************)
EXTENDS Integers, Sequences, FiniteSets, TLC

VARIABLES
    ev_created,   \* instances whose BoundEvent has been created by event.__get__
    ev_fns,       \* instance -> BoundEvent._fns
    ev_disp,      \* the invocation of BoundEvent.__call__ in progress, or the last one
    ev_result,    \* outcome of the last register/unregister made from outside a dispatch
    ms_units,     \* MergingSurvey.angle_units
    ms_decl,      \* MergingSurvey.declination
    ms_shots,     \* MergingSurvey.shots
    ms_splays,    \* MergingSurvey.splays: station -> list of splay shots
    ms_added,     \* history: the shots handed to add_shot, in call order
    ms_prev,      \* history: MergingSurvey.shots before the last add_shot
    sv_decl,      \* compass.Survey.declination
    sv_shots,     \* compass.Survey.shots
    rt_pc,        \* write/read-back: "built", "written" or "parsed"
    rt_survey,    \* the Survey that is written out
    rt_text,      \* the text its _serialize lines make
    rt_parsed,    \* what CompassSurveyParser.parse made of that text
    dp_pc,        \* CompassDatParser.parse: "closed", "loop", "returned" or "raised"
    dp_contents,  \* the text of the data file
    dp_strs,      \* the survey_strs the loop has still to visit
    dp_surveys,   \* datobj.surveys, the local DatFile being filled
    dp_result,    \* the DatFile handed to the caller, if any
    dp_error,     \* the exception that left parse, "" if none
    dw_surveys,   \* DatFile.surveys of the DatFile that is written out
    pl_pc,        \* CompassPltParser.parse: "closed", "loop", "returned" or "raised"
    pl_strict,    \* CompassPltParser.strict_mode
    pl_file,      \* the lines of the plot file that the loop has read
    pl_plt,       \* plt, the Plot being filled
    pl_segment,   \* segment, the Segment that is open, if any
    pl_result,    \* the Plot handed to the caller, if any
    pl_error,     \* the exception that left parse, "" if none
    lk_kind,      \* the class of the container: DatFile, Project, Plot or TxtFile; "" before it is made
    lk_items,     \* its surveys, linked_files or segments
    lk_made,      \* how many elements have been constructed
    lk_out,       \* the last container[item]: the item and what came of it
    ff_format,    \* the eight format fields of a compass.Survey
    ff_fmt,       \* the descriptor last assigned to Survey.file_format
    ff_result,    \* what the assignment did: "ok" or "ValueError"
    ps_pc,        \* CompassSurveyParser: "new", "made" or "parsed"; "idle" when unused
    ps_in,        \* how the survey string was laid out
    ps_text,      \* CompassSurveyParser.survey_str
    ps_out,       \* what parse() returned or raised
    tx_pc,        \* PocketTopoTxtParser.parse: "closed", "headers", "data", "returned" or "raised"
    tx_merge,     \* PocketTopoTxtParser.merge_duplicate_shots
    tx_lines,     \* lines, what is left of the file
    tx_txtobj,    \* txtobj, the TxtFile being filled, if made
    tx_result,    \* the TxtFile handed to the caller, if any
    tx_error,     \* the exception that left parse, "" if none
    pj_base,      \* Project.base_location
    pj_utm,       \* Project._utm_zone, _utm_datum and _utm_convergence
    pj_fixed,     \* Project.fixed_stations: datfile -> station -> location
    pj_calls,     \* history: the locations handed to add_linked_station, in call order
    hi_pc,        \* compass_stats: in the loop over the shots, done, or raised
    hi_shots,     \* history: the shots the loop has taken, in order
    hi_histogram, \* compass_stats: histogram
    hi_n,         \* compass_stats: n
    hi_high_n,    \* compass_stats: high_n
    hi_error,     \* the exception compass_stats ended with
    cv_pc,        \* the converter: off, idle between surveys, in the loop over the shots, or raised
    cv_args,      \* exclude_splays, calculate_lrud and hide_splays of this run
    cv_insurvey,  \* insurvey, the Format-B survey being converted
    cv_pos,       \* the position of the loop in insurvey.shots
    cv_out,       \* outsurvey.shots
    cv_counts,    \* _splay_counts
    cv_used,      \* history: the number of Format-B shots read so far
    cv_log,       \* history: every shot handed to shot2shot with what it returned
    cv_error,     \* the exception the converter ended with
    mk_pc,        \* CompassProjectParser.parse: in the loop over the lines, returned, or raised
    mk_file,      \* history: the lines of the project file read so far
    mk_prev,      \* parse: prev, the linked-file entry that is still open
    mk_base,      \* parse: base_location
    mk_linked,    \* parse: linked_files
    mk_project,   \* the Project that parse returned
    mk_error      \* the exception parse ended with

ev_vars == <<ev_created, ev_fns, ev_disp, ev_result>>
ms_vars == <<ms_units, ms_decl, ms_shots, ms_splays, ms_added, ms_prev>>
sv_vars == <<sv_decl, sv_shots>>
rt_vars == <<rt_pc, rt_survey, rt_text, rt_parsed>>
dp_vars == <<dp_pc, dp_contents, dp_strs, dp_surveys, dp_result, dp_error>>
dw_vars == <<dw_surveys>>
pl_vars == <<pl_pc, pl_strict, pl_file, pl_plt, pl_segment, pl_result, pl_error>>
lk_vars == <<lk_kind, lk_items, lk_made, lk_out>>
ff_vars == <<ff_format, ff_fmt, ff_result>>
ps_vars == <<ps_pc, ps_in, ps_text, ps_out>>
tx_vars == <<tx_pc, tx_merge, tx_lines, tx_txtobj, tx_result, tx_error>>
pj_vars == <<pj_base, pj_utm, pj_fixed, pj_calls>>
hi_vars == <<hi_pc, hi_shots, hi_histogram, hi_n, hi_high_n, hi_error>>
cv_vars == <<cv_pc, cv_args, cv_insurvey, cv_pos, cv_out, cv_counts, cv_used, cv_log, cv_error>>
mk_vars == <<mk_pc, mk_file, mk_prev, mk_base, mk_linked, mk_project, mk_error>>
vars == <<ev_vars, ms_vars, sv_vars, rt_vars, dp_vars, dw_vars, pl_vars, lk_vars, ff_vars, ps_vars, tx_vars, pj_vars, hi_vars, cv_vars, mk_vars>>

-----------------------------------------------------------------------------
(* Generic helpers *)

None == <<>>
Some(x) == <<x>>
IsNone(o) == o = <<>>
Get(o) == o[1]

Abs(i) == IF i < 0 THEN -i ELSE i

RECURSIVE GCD(_, _)
GCD(a, b) == IF b = 0 THEN a ELSE GCD(b, a % b)

\* floor division for any sign of the numerator, positive denominator
FloorDiv(a, b) == IF a >= 0 THEN a \div b ELSE -((-a + b - 1) \div b)

(* Exact rationals <<n, d>> with d > 0 in lowest terms *)
Rat(n, d) ==
    LET s == IF d < 0 THEN -1 ELSE 1
        g == GCD(Abs(n), Abs(d))
    IN  <<(s * n) \div g, (s * d) \div g>>
RInt(i) == <<i, 1>>
RAdd(x, y) == Rat(x[1] * y[2] + y[1] * x[2], x[2] * y[2])
RSub(x, y) == Rat(x[1] * y[2] - y[1] * x[2], x[2] * y[2])
RMul(x, y) == Rat(x[1] * y[1], x[2] * y[2])
RDivInt(x, k) == Rat(x[1], x[2] * k)
RNeg(x) == <<-x[1], x[2]>>
\* Python's x % m for a positive integer m: the result lies in [0, m)
RMod(x, m) == Rat(x[1] - FloorDiv(x[1], x[2] * m) * (x[2] * m), x[2])

RECURSIVE RSum(_)
RSum(s) == IF s = <<>> THEN RInt(0) ELSE RAdd(s[1], RSum(Tail(s)))

(* Text: sequences of one-character strings *)
SP == " "
IsSpace(c) == c \in {" ", "\t", "\r", "\n"}

RECURSIVE LStrip(_)
LStrip(s) == IF s # <<>> /\ IsSpace(s[1]) THEN LStrip(Tail(s)) ELSE s
RECURSIVE RStrip(_)
RStrip(s) ==
    IF s # <<>> /\ IsSpace(s[Len(s)]) THEN RStrip(SubSeq(s, 1, Len(s) - 1)) ELSE s
Strip(s) == LStrip(RStrip(s))

\* index of the first occurrence of x in s, 0 when there is none
RECURSIVE IndexFrom(_, _, _)
IndexFrom(s, x, i) ==
    IF i > Len(s) THEN 0 ELSE IF s[i] = x THEN i ELSE IndexFrom(s, x, i + 1)
IndexOf(s, x) == IndexFrom(s, x, 1)
RemoveAt(s, i) == SubSeq(s, 1, i - 1) \o SubSeq(s, i + 1, Len(s))
IsPrefix(p, s) == Len(p) <= Len(s) /\ SubSeq(s, 1, Len(p)) = p

-----------------------------------------------------------------------------
(* Text primitives: the str methods and the % formats the parsers and
   serializers use *)

Digits == <<"0", "1", "2", "3", "4", "5", "6", "7", "8", "9">>
IsDigit(c) == c \in {"0", "1", "2", "3", "4", "5", "6", "7", "8", "9"}
DigitVal(c) == IndexOf(Digits, c) - 1

CR == "\r"
LF == "\n"
TAB == "\t"
\* form feed 0x0C and SUB 0x1A, which have no escape of their own
FF == "<FF>"
SUB == "<SUB>"

\* str.startswith
StartsWith(s, p) == Len(p) <= Len(s) /\ SubSeq(s, 1, Len(p)) = p

\* the least member of a set of positive integers, 0 for the empty set
Least(S) == IF S = {} THEN 0 ELSE CHOOSE i \in S : \A j \in S : i <= j

\* str.find: the first position at which sub occurs in s, 0 when it does not
Find(s, sub) ==
    Least({i \in 1..(Len(s) - Len(sub) + 1) : SubSeq(s, i, i + Len(sub) - 1) = sub})

\* str.split(sep, maxsplit) for a non-empty separator; SplitAt is given the
\* position of the first separator
RECURSIVE SplitOn(_, _, _)
SplitAt(s, sep, maxsplit, i) ==
    IF maxsplit = 0 \/ i = 0 THEN <<s>>
    ELSE <<SubSeq(s, 1, i - 1)>>
         \o SplitOn(SubSeq(s, i + Len(sep), Len(s)), sep, maxsplit - 1)
SplitOn(s, sep, maxsplit) == SplitAt(s, sep, maxsplit, Find(s, sep))
\* the default maxsplit: no limit on the number of splits
Unlimited == -1

\* the end of the word that starts s (s starts with a non-space character)
RECURSIVE WordEnd(_, _)
WordEnd(s, i) == IF i > Len(s) \/ IsSpace(s[i]) THEN i - 1 ELSE WordEnd(s, i + 1)

\* str.split(None, maxsplit): words between runs of whitespace; once maxsplit
\* words are taken the rest, less its leading whitespace, is the last item
RECURSIVE SplitWords(_, _)
TakeWord(t, end, maxsplit) ==
    <<SubSeq(t, 1, end)>> \o SplitWords(SubSeq(t, end + 1, Len(t)), maxsplit - 1)
SplitStripped(t, maxsplit) ==
    IF t = <<>> THEN <<>>
    ELSE IF maxsplit = 0 THEN <<t>>
    ELSE TakeWord(t, WordEnd(t, 1), maxsplit)
SplitWords(s, maxsplit) == SplitStripped(LStrip(s), maxsplit)

\* str.strip(chars)
RECURSIVE LStripChars(_, _)
LStripChars(s, cs) ==
    IF s # <<>> /\ s[1] \in cs THEN LStripChars(Tail(s), cs) ELSE s
RECURSIVE RStripChars(_, _)
RStripChars(s, cs) ==
    IF s # <<>> /\ s[Len(s)] \in cs
    THEN RStripChars(SubSeq(s, 1, Len(s) - 1), cs) ELSE s
StripChars(s, cs) == LStripChars(RStripChars(s, cs), cs)

\* sep.join(parts)
RECURSIVE Join(_, _)
Join(parts, sep) ==
    IF parts = <<>> THEN <<>>
    ELSE IF Len(parts) = 1 THEN parts[1]
    ELSE parts[1] \o sep \o Join(Tail(parts), sep)

\* str.rjust(width)
RECURSIVE Spaces(_)
Spaces(n) == IF n <= 0 THEN <<>> ELSE <<" ">> \o Spaces(n - 1)
RJust(s, width) == Spaces(width - Len(s)) \o s

\* str.splitlines for text whose line ends are \r\n, \n or \r; SplitLinesAt is
\* given the position of the first line end
RECURSIVE SplitLines(_)
LineEndLen(s, i) == IF s[i] = CR /\ i < Len(s) /\ s[i + 1] = LF THEN 2 ELSE 1
SplitLinesAt(s, i) ==
    IF i = 0 THEN <<s>>
    ELSE <<SubSeq(s, 1, i - 1)>> \o SplitLines(SubSeq(s, i + LineEndLen(s, i), Len(s)))
SplitLines(s) ==
    IF s = <<>> THEN <<>>
    ELSE SplitLinesAt(s, Least({i \in 1..Len(s) : s[i] \in {CR, LF}}))

\* the decimal digits of a natural number, at least `width` of them
RECURSIVE NatDigits(_, _)
NatDigits(n, width) ==
    IF n < 10 /\ width <= 1 THEN <<Digits[n + 1]>>
    ELSE Append(NatDigits(n \div 10, width - 1), Digits[(n % 10) + 1])

RECURSIVE Pow10(_)
Pow10(k) == IF k = 0 THEN 1 ELSE 10 * Pow10(k - 1)

\* num / den rounded to the nearest integer, an exact tie to the even one
RoundHalfEven(num, den) ==
    IF 2 * (num % den) > den \/ (2 * (num % den) = den /\ (num \div den) % 2 = 1)
    THEN (num \div den) + 1 ELSE num \div den

\* |x| * 10^decimals rounded to an integer. The sample numbers are never at a
\* decimal tie, where the binary float may fall to either side
RoundScaled(x, decimals) == RoundHalfEven(Abs(x[1]) * Pow10(decimals), x[2])

\* the digits of m / 10^decimals with that many decimals
FixedDigits(m, decimals) ==
    NatDigits(m \div Pow10(decimals), 1)
    \o (IF decimals = 0 THEN <<>> ELSE <<".">> \o NatDigits(m % Pow10(decimals), decimals))

\* '%<width>.<decimals>f' % x
FormatFixed(x, width, decimals) ==
    RJust((IF x[1] < 0 THEN <<"-">> ELSE <<>>)
          \o FixedDigits(RoundScaled(x, decimals), decimals), width)

\* the value of a run of digits
RECURSIVE DigitsValue(_)
DigitsValue(ds) ==
    IF ds = <<>> THEN 0
    ELSE 10 * DigitsValue(SubSeq(ds, 1, Len(ds) - 1)) + DigitVal(ds[Len(ds)])
AllDigits(ds) == \A i \in 1..Len(ds) : IsDigit(ds[i])

\* float(text) for decimal text [+-]digits[.digits]: the number, or not ok
\* (ValueError) for any other text
FloatOfParts(sign, ip, fp) ==
    IF AllDigits(ip) /\ AllDigits(fp) /\ Len(ip) + Len(fp) > 0
    THEN [ok |-> TRUE,
          val |-> Rat(sign * (DigitsValue(ip) * Pow10(Len(fp)) + DigitsValue(fp)),
                      Pow10(Len(fp)))]
    ELSE [ok |-> FALSE, val |-> RInt(0)]
FloatOfUnsigned(sign, u, dot) ==
    FloatOfParts(sign, IF dot = 0 THEN u ELSE SubSeq(u, 1, dot - 1),
                 IF dot = 0 THEN <<>> ELSE SubSeq(u, dot + 1, Len(u)))
FloatOfSigned(sign, u) == FloatOfUnsigned(sign, u, IndexOf(u, "."))
FloatOfStripped(t) ==
    FloatOfSigned(IF t # <<>> /\ t[1] = "-" THEN -1 ELSE 1,
                  IF t # <<>> /\ t[1] \in {"-", "+"} THEN Tail(t) ELSE t)
ParseFloat(text) == FloatOfStripped(Strip(text))

-----------------------------------------------------------------------------
(* davies/event.py *)

MaxFns == 3

Instances == {"o1", "o2"}
Listeners == {"f", "g"}
EventArgs == {1, 2}
Effects ==
    {[kind |-> "return", fn |-> "f"], [kind |-> "raise", fn |-> "f"]}
    \cup [kind : {"unregister", "register"}, fn : Listeners]

NoDispatch ==
    [status |-> "none", inst |-> "o1", args |-> 1, start |-> <<>>, snap |-> <<>>,
     pos |-> 1, calls |-> <<>>, selfun |-> FALSE]

\* registrations held by all instances together
TotalFns == Len(ev_fns["o1"]) + Len(ev_fns["o2"])

EventIdle ==
    /\ ev_created = {}
    /\ ev_fns = [o \in Instances |-> <<>>]
    /\ ev_disp = NoDispatch
    /\ ev_result = "ok"

EventGetShared(o) == ev_fns["o1"]
\* event.__get__: the instance's BoundEvent, created empty on first access
EventGet(o) == IF o \in ev_created THEN ev_fns[o] ELSE <<>>

\* BoundEvent.__iadd__
Iadd(fns, fn) == Append(fns, fn)

IsubLast(fns, fn) ==
    RemoveAt(fns, CHOOSE i \in 0..Len(fns) :
                    /\ i > 0 => fns[i] = fn
                    /\ \A j \in (i + 1)..Len(fns) : fns[j] # fn)
\* BoundEvent.__isub__: list.remove drops the first equal entry
Isub(fns, fn) == RemoveAt(fns, IndexOf(fns, fn))

DispatchListLive(snap, live) == live
\* BoundEvent.__call__ iterates self._fns[:], the copy made when the call starts
DispatchList(snap, live) == snap

Register(o, fn) ==
    /\ ev_disp.status # "running"
    /\ TotalFns < MaxFns
    /\ ev_created' = ev_created \cup {o}
    /\ ev_fns' = [ev_fns EXCEPT ![o] = Iadd(EventGet(o), fn)]
    /\ ev_result' = "ok"
    /\ UNCHANGED ev_disp

Unregister(o, fn) ==
    /\ ev_disp.status # "running"
    /\ ev_created' = ev_created \cup {o}
    /\ IF IndexOf(EventGet(o), fn) = 0
       THEN /\ ev_result' = "ValueError"
            /\ ev_fns' = [ev_fns EXCEPT ![o] = EventGet(o)]
       ELSE /\ ev_result' = "ok"
            /\ ev_fns' = [ev_fns EXCEPT ![o] = Isub(EventGet(o), fn)]
    /\ UNCHANGED ev_disp

Invoke(o, a) ==
    /\ ev_disp.status # "running"
    /\ ev_created' = ev_created \cup {o}
    /\ ev_fns' = [ev_fns EXCEPT ![o] = EventGet(o)]
    /\ ev_disp' = [status |-> "running", inst |-> o, args |-> a,
                   start |-> EventGet(o), snap |-> EventGet(o), pos |-> 1,
                   calls |-> <<>>, selfun |-> FALSE]
    /\ UNCHANGED ev_result

\* one turn of the for loop: the next listener is called and does `e`
CallListener(e) ==
    LET o == ev_disp.inst
        lst == DispatchList(ev_disp.snap, ev_fns[o])
        f == lst[ev_disp.pos]
        call == [fn |-> f, args |-> ev_disp.args]
        fails == \/ e.kind = "raise"
                 \/ e.kind = "unregister" /\ IndexOf(ev_fns[o], e.fn) = 0
    IN  /\ ev_disp.status = "running"
        /\ ev_disp.pos <= Len(lst)
        /\ e.kind = "register" => TotalFns < MaxFns
        /\ ev_fns' = [ev_fns EXCEPT ![o] =
                        CASE e.kind = "register" -> Iadd(@, e.fn)
                          [] e.kind = "unregister" /\ ~fails -> Isub(@, e.fn)
                          [] OTHER -> @]
        /\ ev_disp' = [ev_disp EXCEPT !.calls = Append(@, call),
                                      !.pos = @ + 1,
                                      !.selfun = @ \/ (e.kind = "unregister"
                                                       /\ e.fn = f /\ ~fails),
                                      !.status = IF fails THEN "raised" ELSE @]
        /\ UNCHANGED <<ev_created, ev_result>>

\* the for loop is exhausted: __call__ returns
DispatchReturn ==
    /\ ev_disp.status = "running"
    /\ ev_disp.pos > Len(DispatchList(ev_disp.snap, ev_fns[ev_disp.inst]))
    /\ ev_disp' = [ev_disp EXCEPT !.status = "returned"]
    /\ UNCHANGED <<ev_created, ev_fns, ev_result>>

-----------------------------------------------------------------------------
(* davies/pockettopo: MergingSurvey *)

MaxAdds == 3

Stations == {"A", "B", "C"}

\* a Format-B shot as the parser builds it (PocketTopoTxtParser.parse): TO and
\* COMMENT may be None, dupe_count starts at 1, declination at 0.0
BShot(from, to, length, azm, inc, comment) ==
    [FROM |-> from, TO |-> to, LENGTH |-> length, AZM |-> azm, INC |-> inc,
     COMMENT |-> comment, dupe_count |-> 1, declination |-> RInt(0)]

\* sample station pairs: forward, reversed, a third station, a loop on one
\* station, and the two splay forms (TO None, TO '')
SamplePairs ==
    {<<"A", Some("B")>>, <<"B", Some("A")>>, <<"A", Some("C")>>,
     <<"A", Some("A")>>, <<"A", None>>, <<"B", Some("")>>}

\* sample readings <<LENGTH, AZM, INC, COMMENT>>
SampleReadings ==
    {<<RInt(10), RInt(350), RInt(-4), None>>,
     <<RInt(11), RInt(10), RInt(3), Some(<<"a">>)>>,
     <<Rat(21, 2), RInt(170), RInt(0), Some(<<" ", "b">>)>>,
     <<RInt(10), Rat(701, 2), RInt(-3), Some(<<>>)>>}

NewShots ==
    {BShot(p[1], p[2], r[1], r[2], r[3], r[4]) : p \in SamplePairs, r \in SampleReadings}

MergeIdle ==
    /\ ms_units = 360
    /\ ms_decl = RInt(0)
    /\ ms_shots = <<>>
    /\ ms_splays = [st \in Stations |-> <<>>]
    /\ ms_added = <<>>
    /\ ms_prev = <<>>

\* shot.get('TO', None) is truthy: neither None nor ''
HasTo(shot) == ~IsNone(shot.TO) /\ Get(shot.TO) # ""

\* Shot.is_splay
IsSplay(shot) == IsNone(shot.TO) \/ Get(shot.TO) = ""

\* Survey.add_shot: stamp the declination, index a splay, append
PlainAddShot(sv, shot) ==
    LET s == [shot EXCEPT !.declination = sv.decl]
    IN  [sv EXCEPT !.splays = IF IsSplay(s)
                               THEN [@ EXCEPT ![s.FROM] = Append(@, s)]
                               ELSE @,
                   !.shots = Append(@, s)]

\* MergingSurvey._inverse_azm
InverseAzmNoWrap(units, azm) == RAdd(azm, Rat(units, 2))
InverseAzm(units, azm) == RMod(RAdd(azm, Rat(units, 2)), units)

\* MergingSurvey._inverse_inc
InverseInc(inc) == RMul(RInt(-1), inc)

\* the iterative "running" mean of add_shot
RunningMeanUnweighted(prev, count, new) == RDivInt(RAdd(prev, new), 2)
RunningMean(prev, count, new) ==
    RDivInt(RAdd(RMul(prev, RInt(count)), new), count + 1)

\* x or ''
OrEmpty(o) == IF IsNone(o) THEN <<>> ELSE Get(o)

\* ('%s %s' % (prev or '', new or '')).strip() or None
MergedComments(prev, new) ==
    LET t == Strip(OrEmpty(prev) \o <<" ">> \o OrEmpty(new))
    IN  IF t = <<>> THEN None ELSE Some(t)

\* the first test of MergingSurvey.add_shot: delegate to the plain append
DelegatesOnlyWhenEmpty(shots, shot) == shots = <<>>
Delegates(shots, shot) ==
    shots = <<>> \/ ~HasTo(shot) \/ ~HasTo(shots[Len(shots)])

\* the merge of `shot` into prev_shot, with the AZM and INC it contributes
MergeIntoKeepsCount(prev, shot, azm, inc) ==
    [prev EXCEPT
        !.LENGTH = RunningMean(prev.LENGTH, prev.dupe_count, shot.LENGTH),
        !.AZM = RunningMean(prev.AZM, prev.dupe_count, azm),
        !.INC = RunningMean(prev.INC, prev.dupe_count, inc),
        !.COMMENT = MergedComments(prev.COMMENT, shot.COMMENT)]
MergeInto(prev, shot, azm, inc) ==
    [prev EXCEPT
        !.LENGTH = RunningMean(prev.LENGTH, prev.dupe_count, shot.LENGTH),
        !.AZM = RunningMean(prev.AZM, prev.dupe_count, azm),
        !.INC = RunningMean(prev.INC, prev.dupe_count, inc),
        !.COMMENT = MergedComments(prev.COMMENT, shot.COMMENT),
        !.dupe_count = @ + 1]

\* MergingSurvey.add_shot
MergingAddShot(sv, shot) ==
    IF Delegates(sv.shots, shot)
    THEN PlainAddShot(sv, shot)
    ELSE LET n == Len(sv.shots)
             prev == sv.shots[n]
         IN  IF shot.FROM = prev.FROM /\ shot.TO = prev.TO
             THEN [sv EXCEPT !.shots[n] = MergeInto(prev, shot, shot.AZM, shot.INC)]
             ELSE IF Some(shot.FROM) = prev.TO /\ shot.TO = Some(prev.FROM)
             THEN [sv EXCEPT !.shots[n] =
                      MergeInto(prev, shot, InverseAzm(sv.units, shot.AZM),
                                InverseInc(shot.INC))]
             ELSE PlainAddShot(sv, shot)

MergingSurveyObj ==
    [shots |-> ms_shots, splays |-> ms_splays, decl |-> ms_decl, units |-> ms_units]

AddShot(shot) ==
    LET sv == MergingAddShot(MergingSurveyObj, shot)
    IN  /\ Len(ms_added) < MaxAdds
        /\ ms_shots' = sv.shots
        /\ ms_splays' = sv.splays
        /\ ms_added' = Append(ms_added, shot)
        /\ ms_prev' = ms_shots
        /\ UNCHANGED <<ms_units, ms_decl>>

-----------------------------------------------------------------------------
(* davies/compass: Shot and Survey *)

MaxShots == 2

\* field values of a Shot: None, a float, float('inf'), or text
V_None == [t |-> "none", n |-> 0, d |-> 1, s |-> <<>>]
V_Inf == [t |-> "inf", n |-> 0, d |-> 1, s |-> <<>>]
V_Num(r) == [t |-> "num", n |-> r[1], d |-> r[2], s |-> <<>>]
V_Str(txt) == [t |-> "str", n |-> 0, d |-> 1, s |-> txt]
\* the outcome of a property whose evaluation raises TypeError
V_TypeError == [t |-> "TypeError", n |-> 0, d |-> 1, s |-> <<>>]
NumOf(v) == <<v.n, v.d>>

\* the field names, as text
K_FROM == <<"F", "R", "O", "M">>
K_TO == <<"T", "O">>
K_LENGTH == <<"L", "E", "N", "G", "T", "H">>
K_BEARING == <<"B", "E", "A", "R", "I", "N", "G">>
K_INC == <<"I", "N", "C">>
K_LEFT == <<"L", "E", "F", "T">>
K_UP == <<"U", "P">>
K_DOWN == <<"D", "O", "W", "N">>
K_RIGHT == <<"R", "I", "G", "H", "T">>
K_AZM2 == <<"A", "Z", "M", "2">>
K_INC2 == <<"I", "N", "C", "2">>
K_FLAGS == <<"F", "L", "A", "G", "S">>
K_COMMENTS == <<"C", "O", "M", "M", "E", "N", "T", "S">>

\* Exclude
Exclude_LENGTH == "L"
Exclude_TOTAL == "X"
Exclude_CLOSURE == "C"
Exclude_PLOT == "P"

\* a Shot is an OrderedDict, a list of <<key, value>> items, with a declination
\* Shot.__init__
Shot(items, declination) == [items |-> items, declination |-> declination]

\* OrderedDict.get(key, None)
RECURSIVE ItemsGet(_, _)
ItemsGet(items, key) ==
    IF items = <<>> THEN V_None
    ELSE IF items[1][1] = key THEN items[1][2] ELSE ItemsGet(Tail(items), key)
ShotGet(shot, key) == ItemsGet(shot.items, key)

\* key in shot
HasKey(shot, key) == \E i \in 1..Len(shot.items) : shot.items[i][1] = key

\* Shot.azm
AzmNoBacksightTurn(shot) ==
    LET azm1 == ShotGet(shot, K_BEARING) IN
    IF azm1.t = "num" THEN V_Num(RAdd(NumOf(azm1), shot.declination)) ELSE V_None
Azm(shot) ==
    LET azm1 == ShotGet(shot, K_BEARING)
        azm2 == ShotGet(shot, K_AZM2)
        back == RMod(RAdd(NumOf(azm2), RInt(180)), 360)
    IN  IF azm1.t = "none" /\ azm2.t = "none" THEN V_None
        ELSE IF azm1.t \notin {"num", "none"} \/ azm2.t \notin {"num", "none"}
             THEN V_TypeError
        ELSE IF azm2.t = "none" THEN V_Num(RAdd(NumOf(azm1), shot.declination))
        ELSE IF azm1.t = "none" THEN V_Num(RAdd(back, shot.declination))
        ELSE V_Num(RAdd(RDivInt(RAdd(NumOf(azm1), back), 2), shot.declination))

\* Shot.inc
IncSummed(shot) ==
    LET inc1 == ShotGet(shot, K_INC)
        inc2 == ShotGet(shot, K_INC2)
    IN  IF inc1.t = "num" /\ inc2.t = "num"
        THEN V_Num(RDivInt(RAdd(NumOf(inc1), NumOf(inc2)), 2))
        ELSE IF inc1.t = "num" THEN inc1 ELSE inc2
Inc(shot) ==
    LET inc1 == ShotGet(shot, K_INC)
        inc2 == ShotGet(shot, K_INC2)
    IN  IF inc1.t = "none" /\ inc2.t = "none" THEN V_None
        ELSE IF inc1.t \notin {"num", "none"} \/ inc2.t \notin {"num", "none"}
             THEN V_TypeError
        ELSE IF inc2.t = "none" THEN inc1
        ELSE IF inc1.t = "none" THEN V_Num(RMul(RInt(-1), NumOf(inc2)))
        ELSE V_Num(RDivInt(RSub(NumOf(inc1), NumOf(inc2)), 2))

\* Shot.flags: set(self.get('FLAGS', ''))
Flags(shot) ==
    IF HasKey(shot, K_FLAGS)
    THEN {ShotGet(shot, K_FLAGS).s[i] : i \in 1..Len(ShotGet(shot, K_FLAGS).s)}
    ELSE {}

\* Shot.length
ShotLength(shot) == ShotGet(shot, K_LENGTH)

\* Shot.is_included
IsIncludedLengthOnly(shot) == Exclude_LENGTH \notin Flags(shot)
IsIncluded(shot) == Exclude_LENGTH \notin Flags(shot) /\ Exclude_TOTAL \notin Flags(shot)

\* Shot.is_excluded
IsExcludedBoth(shot) == Exclude_LENGTH \in Flags(shot) /\ Exclude_TOTAL \in Flags(shot)
IsExcluded(shot) == Exclude_LENGTH \in Flags(shot) \/ Exclude_TOTAL \in Flags(shot)

\* sum([...]) over shot lengths: TypeError unless every term is a number
RECURSIVE SumValues(_)
SumValues(vals) ==
    IF vals = <<>> THEN V_Num(RInt(0))
    ELSE LET rest == SumValues(Tail(vals))
         IN  IF vals[1].t # "num" \/ rest.t # "num" THEN V_TypeError
             ELSE V_Num(RAdd(NumOf(vals[1]), NumOf(rest)))

\* [shot.length for shot in shots]
Lengths(shots) == [i \in 1..Len(shots) |-> ShotLength(shots[i])]

\* Survey.length
SurveyLength(shots) == SumValues(Lengths(shots))

\* Survey.included_length
SurveyIncludedLength(shots) == SumValues(Lengths(SelectSeq(shots, IsIncluded)))

\* Survey.excluded_length
SurveyExcludedLength(shots) == SumValues(Lengths(SelectSeq(shots, IsExcluded)))

\* Survey.add_shot: shot.declination = self.declination
Unstamped(shot, declination) == shot
Stamped(shot, declination) == [shot EXCEPT !.declination = declination]

\* Survey.add_shot
SurveyAddShot(shots, declination, shot) == Append(shots, Stamped(shot, declination))

SurveyIdle ==
    /\ sv_decl = RInt(0)
    /\ sv_shots = <<>>

\* sample readings: BEARING, AZM2, INC, INC2 items, None-valued or left out
SampleReadingsA ==
    << <<>>,
       <<<<K_BEARING, V_Num(RInt(7))>>, <<K_INC, V_Num(RInt(-4))>>>>,
       <<<<K_BEARING, V_None>>, <<K_AZM2, V_Num(RInt(189))>>, <<K_INC2, V_Num(Rat(7, 2))>>>>,
       <<<<K_BEARING, V_Num(RInt(7))>>, <<K_AZM2, V_Num(RInt(189))>>,
         <<K_INC, V_Num(RInt(-4))>>, <<K_INC2, V_Num(Rat(7, 2))>>>>,
       <<<<K_BEARING, V_Num(Rat(3501, 10))>>, <<K_AZM2, V_Num(RInt(20))>>,
         <<K_INC, V_Num(RInt(10))>>, <<K_INC2, V_None>>>> >>
\* sample LENGTH and FLAGS items
SampleLengthFlags ==
    << <<<<K_LENGTH, V_Num(Rat(157, 10))>>>>,
       <<<<K_LENGTH, V_Num(RInt(10))>>, <<K_FLAGS, V_Str(<<"L">>)>>>>,
       <<<<K_LENGTH, V_Num(Rat(5, 2))>>, <<K_FLAGS, V_Str(<<"X">>)>>>>,
       <<<<K_LENGTH, V_Num(RInt(3))>>, <<K_FLAGS, V_Str(<<"C", "P">>)>>>>,
       <<<<K_LENGTH, V_Num(RInt(4))>>, <<K_FLAGS, V_Str(<<"Q", "L", "X">>)>>>>,
       <<<<K_LENGTH, V_Num(RInt(6))>>, <<K_FLAGS, V_Str(<<>>)>>>>,
       <<<<K_LENGTH, V_None>>, <<K_FLAGS, V_Str(<<"L">>)>>>> >>
\* Shot(...) as a caller or the parser builds it, declination 0.0 until added:
\* every reading on the unflagged shot, every LENGTH and FLAGS with all four angles
SampleShots ==
    {Shot(SampleLengthFlags[i] \o SampleReadingsA[j], RInt(0)) :
        <<i, j>> \in {ij \in (1..7) \X (1..5) : ij[1] = 1 \/ ij[2] = 4}}
SampleDeclinations == {RInt(0), Rat(17, 2)}

\* survey.add_shot(shot)
AddShotA(shot) ==
    /\ Len(sv_shots) < MaxShots
    /\ sv_shots' = SurveyAddShot(sv_shots, sv_decl, shot)
    /\ UNCHANGED sv_decl

\* survey.declination = d
SetDeclination(d) ==
    /\ d # sv_decl
    /\ sv_decl' = d
    /\ UNCHANGED sv_shots

-----------------------------------------------------------------------------
(* davies/compass: the survey serializer *)

\* the literal texts of the survey grammar
T_SURVEY_NAME == <<"S", "U", "R", "V", "E", "Y", " ", "N", "A", "M", "E", ":">>
T_SURVEY_DATE == <<"S", "U", "R", "V", "E", "Y", " ", "D", "A", "T", "E", ":">>
T_COMMENT == <<"C", "O", "M", "M", "E", "N", "T", ":">>
T_SURVEY_TEAM == <<"S", "U", "R", "V", "E", "Y", " ", "T", "E", "A", "M", ":">>
T_DECLINATION == <<"D", "E", "C", "L", "I", "N", "A", "T", "I", "O", "N", ":">>
T_FORMAT == <<"F", "O", "R", "M", "A", "T", ":">>
T_CORRECTIONS == <<"C", "O", "R", "R", "E", "C", "T", "I", "O", "N", "S", ":">>
T_CORRECTIONS2 == <<"C", "O", "R", "R", "E", "C", "T", "I", "O", "N", "S", "2", ":">>
T_NoData == <<"-", "9", "9", "9", ".", "0", "0">>
T_Passage == <<"-", "9", ".", "9", "0">>
T_PassageOld == <<"-", "9", "9", "9", "9", ".", "0", "0">>
T_FlagsOpen == <<"#", "|">>
T_inf == <<"i", "n", "f">>

DEFAULT_HEADER ==
    <<K_FROM, K_TO, K_LENGTH, K_BEARING, K_INC, K_LEFT, K_UP, K_DOWN, K_RIGHT,
      K_FLAGS, K_COMMENTS>>
DEFAULT_HEADER_BACKSIGHTS ==
    <<K_FROM, K_TO, K_LENGTH, K_BEARING, K_INC, K_LEFT, K_UP, K_DOWN, K_RIGHT,
      K_AZM2, K_INC2, K_FLAGS, K_COMMENTS>>

\* the format fields Survey.__init__ sets before any file_format is assigned
DefaultFormat ==
    [bearing_units |-> <<"D">>, length_units |-> <<"D">>, passage_units |-> <<"D">>,
     inclination_units |-> <<"D">>, passage_dimension_order |-> <<"U", "D", "L", "R">>,
     shot_item_order |-> <<"L", "A", "D">>, backsight |-> <<"N">>,
     lrud_association |-> <<"F">>]

FileFormatItemsFirst(f) ==
    f.bearing_units \o f.length_units \o f.passage_units \o f.inclination_units
    \o f.shot_item_order \o f.passage_dimension_order \o f.backsight
    \o f.lrud_association
\* Survey.file_format (getter)
FileFormat(f) ==
    f.bearing_units \o f.length_units \o f.passage_units \o f.inclination_units
    \o f.passage_dimension_order \o f.shot_item_order \o f.backsight
    \o f.lrud_association

SetFileFormatLastChar(fmt) ==
    [bearing_units |-> <<fmt[1]>>, length_units |-> <<fmt[2]>>,
     passage_units |-> <<fmt[3]>>, inclination_units |-> <<fmt[4]>>,
     passage_dimension_order |-> SubSeq(fmt, 5, 8),
     shot_item_order |-> IF Len(fmt) < 15 THEN SubSeq(fmt, 9, 11) ELSE SubSeq(fmt, 9, 13),
     backsight |-> IF Len(fmt) < 12 THEN <<"N">> ELSE <<fmt[Len(fmt)]>>,
     lrud_association |-> IF Len(fmt) < 13 THEN <<"F">> ELSE <<fmt[Len(fmt)]>>]
\* Survey.file_format (setter), for len(fmt) >= 11; shorter text raises ValueError
SetFileFormat(fmt) ==
    LET n == Len(fmt)
    IN  [bearing_units |-> <<fmt[1]>>,
         length_units |-> <<fmt[2]>>,
         passage_units |-> <<fmt[3]>>,
         inclination_units |-> <<fmt[4]>>,
         passage_dimension_order |-> SubSeq(fmt, 5, 8),
         shot_item_order |->
             IF n < 15 THEN SubSeq(fmt, 9, 11) ELSE SubSeq(fmt, 9, 13),
         backsight |->
             IF n < 12 THEN <<"N">> ELSE IF n > 12 THEN <<fmt[n - 1]>> ELSE <<fmt[n]>>,
         lrud_association |-> IF n < 13 THEN <<"F">> ELSE <<fmt[n]>>]

\* Survey.__init__
NewSurvey(name, date, comment, team, declination, fmt, corrections, corrections2, cave_name, shot_header) ==
    [name |-> name, date |-> date, comment |-> comment, team |-> team,
     declination |-> declination, corrections |-> corrections,
     corrections2 |-> corrections2, cave_name |-> cave_name,
     shot_header |-> shot_header, shots |-> <<>>,
     format |-> IF fmt = <<>> THEN DefaultFormat ELSE SetFileFormat(fmt)]

\* Survey.backsights_enabled
BacksightsEnabled(sv) ==
    \E i \in 1..Len(sv.shots) : HasKey(sv.shots[i], K_AZM2) \/ HasKey(sv.shots[i], K_INC2)

\* self.date.strftime('%m %d %Y').lstrip('0') if self.date else ''
SerializeDate(date) ==
    IF IsNone(date) THEN <<>>
    ELSE LStripChars(NatDigits(Get(date).m, 2) \o <<" ">> \o NatDigits(Get(date).d, 2)
                     \o <<" ">> \o NatDigits(Get(date).y, 4), {"0"})

\* '%7.2f' % (v if v is not None else -999.0), and the same with '%8.3f'
FormatReading(v, width, decimals) ==
    IF v.t = "inf" THEN RJust(T_inf, width)
    ELSE FormatFixed(IF v.t = "num" THEN NumOf(v) ELSE RInt(-999), width, decimals)

\* '%7.2f' % (v if v is not None and v != float('inf') else -9.90)
FormatPassage(v) == FormatFixed(IF v.t = "num" THEN NumOf(v) ELSE Rat(-99, 10), 7, 2)

\* v or ''
TextOrEmpty(v) == IF v.t = "str" THEN v.s ELSE <<>>

\* the column written for header key k with value v (none for FLAGS and COMMENTS)
SerializeField(k, v) ==
    IF k \in {K_BEARING, K_INC, K_AZM2, K_INC2} THEN <<FormatReading(v, 7, 2)>>
    ELSE IF k = K_LENGTH THEN <<FormatReading(v, 8, 3)>>
    ELSE IF k \in {K_LEFT, K_RIGHT, K_UP, K_DOWN} THEN <<FormatPassage(v)>>
    ELSE IF k \in {K_FROM, K_TO} THEN <<RJust(TextOrEmpty(v), 6)>>
    ELSE IF k \in {K_FLAGS, K_COMMENTS} THEN <<>>
    ELSE <<TextOrEmpty(v)>>
SerializeValue(shot, k) == SerializeField(k, ShotGet(shot, k))

RECURSIVE SerializeValues(_, _)
SerializeValues(shot, header) ==
    IF header = <<>> THEN <<>>
    ELSE SerializeValue(shot, header[1]) \o SerializeValues(shot, Tail(header))

\* the flags and comments column that ends every shot line
FlagsComments(flags, comments) ==
    IF flags # <<>>
    THEN T_FlagsOpen \o flags \o <<"#">> \o <<" ", " ">> \o comments
    ELSE SubSeq(comments, 1, IF Len(comments) < 80 THEN Len(comments) ELSE 80)
SerializeFlagsComments(shot) ==
    FlagsComments(TextOrEmpty(ShotGet(shot, K_FLAGS)), TextOrEmpty(ShotGet(shot, K_COMMENTS)))

\* one shot line of Survey._serialize
SerializeShot(shot, header) ==
    Join(Append(SerializeValues(shot, header), SerializeFlagsComments(shot)), <<TAB>>)

\* the header Survey._serialize writes
SerializedHeader(sv) ==
    IF sv.shot_header # <<>> THEN sv.shot_header
    ELSE IF BacksightsEnabled(sv) THEN DEFAULT_HEADER_BACKSIGHTS
    ELSE DEFAULT_HEADER

\* the lines of Survey._serialize under that header
SerializeUnder(sv, header) ==
    << sv.cave_name,
       T_SURVEY_NAME \o <<" ">> \o sv.name,
       T_SURVEY_DATE \o <<" ">> \o SerializeDate(sv.date) \o <<" ", " ">>
           \o T_COMMENT \o sv.comment,
       T_SURVEY_TEAM,
       Join(sv.team, <<",">>),
       T_DECLINATION \o <<" ">> \o FormatFixed(sv.declination, 7, 2)
           \o <<" ", " ">> \o T_FORMAT \o <<" ">> \o FileFormat(sv.format)
           \o <<" ", " ">> \o T_CORRECTIONS \o <<" ", " ">>
           \o Join([i \in 1..Len(sv.corrections) |->
                      FormatFixed(sv.corrections[i], 0, 2)], <<" ">>)
           \o <<" ", " ">> \o T_CORRECTIONS2 \o <<" ", " ">>
           \o Join([i \in 1..Len(sv.corrections2) |->
                      FormatFixed(sv.corrections2[i], 0, 2)], <<" ">>),
       <<>>,
       Join(header, <<TAB>>),
       <<>> >>
    \o [i \in 1..Len(sv.shots) |-> SerializeShot(sv.shots[i], header)]

\* Survey._serialize
Serialize(sv) == SerializeUnder(sv, SerializedHeader(sv))

-----------------------------------------------------------------------------
(* davies/compass: the survey-string parser *)
(* Where a step uses an intermediate result more than once, the result is
   handed on as an argument of the operator for the next step. *)

_FLOAT_KEYS == {K_LENGTH, K_BEARING, K_AZM2, K_INC, K_INC2, K_LEFT, K_RIGHT, K_UP, K_DOWN}
_INF_KEYS == {K_LEFT, K_RIGHT, K_UP, K_DOWN}

\* the outcome of a step that may raise: err is "" or the exception's name
Ok(v) == [err |-> "", v |-> v]
Raise(e) == [err |-> e, v |-> <<>>]

\* float(val): the number, or ValueError, which `except TypeError` does not catch
CoerceFloat(f) == IF f.ok THEN Ok(V_Num(f.val)) ELSE Raise("ValueError")

\* CompassSurveyParser._coerce
Coerce(key, val) ==
    IF val = T_NoData THEN Ok(V_None)
    ELSE IF key \in _INF_KEYS /\ val \in {T_Passage, T_PassageOld} THEN Ok(V_Inf)
    ELSE IF key \in _FLOAT_KEYS THEN CoerceFloat(ParseFloat(val))
    ELSE Ok(V_Str(val))

IsLeap(y) == (y % 4 = 0 /\ y % 100 # 0) \/ y % 400 = 0
DaysInMonth(y, m) ==
    IF m = 2 THEN (IF IsLeap(y) THEN 29 ELSE 28)
    ELSE IF m \in {4, 6, 9, 11} THEN 30 ELSE 31

\* the date strptime makes of month, day and year, if there is such a date
DateOf(m, d, y) ==
    IF m \in 1..12 /\ y >= 1 /\ d >= 1 /\ d <= DaysInMonth(y, m)
    THEN Ok(Some([y |-> y, m |-> m, d |-> d]))
    ELSE Raise("ParseException")

\* %Y for four digits; %y for two: 69..99 are 19xx, 00..68 are 20xx
YearOf(digits, yy) ==
    IF digits = 4 THEN yy ELSE IF yy >= 69 THEN 1900 + yy ELSE 2000 + yy

\* the words of the date text matched against '%m %d %Y', then '%m %d %y'
DateOfWords(w) ==
    IF /\ Len(w) = 3
       /\ \A i \in 1..3 : AllDigits(w[i])
       /\ Len(w[1]) <= 2 /\ Len(w[2]) <= 2 /\ Len(w[3]) \in {2, 4}
    THEN DateOf(DigitsValue(w[1]), DigitsValue(w[2]), YearOf(Len(w[3]), DigitsValue(w[3])))
    ELSE Raise("ParseException")

\* CompassSurveyParser._parse_date
ParseDate(datestr) == DateOfWords(SplitWords(Strip(datestr), Unlimited))

\* map(float, toks): the numbers, ValueError if one is no number
FloatsOfParsed(fs) ==
    IF \A i \in 1..Len(fs) : fs[i].ok THEN Ok([i \in 1..Len(fs) |-> fs[i].val])
    ELSE Raise("ValueError")
FloatsOf(toks) == FloatsOfParsed([i \in 1..Len(toks) |-> ParseFloat(toks[i])])

Min(a, b) == IF a < b THEN a ELSE b

WithDeclination(acc, f) ==
    IF f.ok THEN Ok([acc EXCEPT !.declination = f.val]) ELSE Raise("ValueError")
WithCorrections(acc, c) ==
    IF c.err # "" THEN c ELSE Ok([acc EXCEPT !.corrections = c.v])
WithCorrections2(acc, c) ==
    IF c.err # "" THEN c ELSE Ok([acc EXCEPT !.corrections2 = c.v])

\* the loop body of _parse_declination_line for token i
DeclinationTok(toks, i, acc) ==
    IF toks[i] = T_DECLINATION
    THEN IF i + 1 > Len(toks) THEN Raise("IndexError")
         ELSE WithDeclination(acc, ParseFloat(toks[i + 1]))
    ELSE IF toks[i] = T_FORMAT
    THEN IF i + 1 > Len(toks) THEN Raise("IndexError")
         ELSE Ok([acc EXCEPT !.fmt = toks[i + 1]])
    ELSE IF toks[i] = T_CORRECTIONS
    THEN WithCorrections(acc, FloatsOf(SubSeq(toks, i + 1, Min(i + 3, Len(toks)))))
    ELSE IF toks[i] = T_CORRECTIONS2
    THEN WithCorrections2(acc, FloatsOf(SubSeq(toks, i + 1, Min(i + 2, Len(toks)))))
    ELSE Ok(acc)

\* the loop of _parse_declination_line, from token i on
RECURSIVE ParseDeclinationToks(_, _, _)
DeclinationRest(toks, i, r) ==
    IF r.err # "" THEN r ELSE ParseDeclinationToks(toks, i + 1, r.v)
ParseDeclinationToks(toks, i, acc) ==
    IF i > Len(toks) THEN Ok(acc) ELSE DeclinationRest(toks, i, DeclinationTok(toks, i, acc))

\* CompassSurveyParser._parse_declination_line
ParseDeclinationLine(line) ==
    ParseDeclinationToks(SplitWords(Strip(line), Unlimited), 1,
        [declination |-> RInt(0), fmt |-> <<>>,
         corrections |-> <<RInt(0), RInt(0), RInt(0)>>,
         corrections2 |-> <<RInt(0), RInt(0)>>])

\* flags, comment = flags_comment.split('#|', 1)[1].split('#', 1)
FlagsAndComment(parts) == IF Len(parts) = 2 THEN Ok(parts) ELSE Raise("ParseException")

\* the flags and comment of the column that follows the val_count values
SplitFlagsComment(flags_comment) ==
    IF ~StartsWith(flags_comment, T_FlagsOpen) THEN Ok(<<<<>>, flags_comment>>)
    ELSE FlagsAndComment(SplitOn(SplitOn(flags_comment, T_FlagsOpen, 1)[2], <<"#">>, 1))

\* zip(shot_header, shot_vals) through _coerce, left to right
ConsCoerced(key, c, rest) ==
    IF c.err # "" THEN c
    ELSE IF rest.err # "" THEN rest
    ELSE Ok(<<<<key, c.v>>>> \o rest.v)
RECURSIVE CoerceAll(_, _)
CoerceAll(header, vals) ==
    IF header = <<>> \/ vals = <<>> THEN Ok(<<>>)
    ELSE ConsCoerced(header[1], Coerce(header[1], vals[1]),
                     CoerceAll(Tail(header), Tail(vals)))

\* shot_vals += [flags, comment.strip()], then the coercion
CoerceWithFlags(shot_header, vals, fc) ==
    IF fc.err # "" THEN fc
    ELSE CoerceAll(shot_header, vals \o <<fc.v[1], Strip(fc.v[2])>>)

\* the loop body of CompassSurveyParser.parse once the line is split
CoerceSplit(shot_header, val_count, split) ==
    IF Len(split) <= val_count THEN CoerceAll(shot_header, split)
    ELSE IF split = <<>> THEN Raise("IndexError")
    ELSE CoerceWithFlags(shot_header, SubSeq(split, 1, Len(split) - 1),
                         SplitFlagsComment(split[Len(split)]))

\* the loop body of CompassSurveyParser.parse: the items of one shot
ParseShotLine(shot_line, shot_header, val_count) ==
    CoerceSplit(shot_header, val_count, SplitWords(shot_line, val_count))

\* the shot-line loop: every shot is added with Survey.add_shot
ConsShot(declination, first, rest) ==
    IF first.err # "" THEN first
    ELSE IF rest.err # "" THEN rest
    ELSE Ok(SurveyAddShot(<<>>, declination, Shot(first.v, RInt(0))) \o rest.v)
RECURSIVE ParseShotLines(_, _, _, _)
ParseShotLines(shot_lines, shot_header, val_count, declination) ==
    IF shot_lines = <<>> THEN Ok(<<>>)
    ELSE ConsShot(declination, ParseShotLine(shot_lines[1], shot_header, val_count),
                  ParseShotLines(Tail(shot_lines), shot_header, val_count, declination))

\* len(shot_header) - 2 if 'FLAGS' in shot_header else len(shot_header)
ValCount(shot_header) ==
    IF \E i \in 1..Len(shot_header) : shot_header[i] = K_FLAGS
    THEN Len(shot_header) - 2 ELSE Len(shot_header)

\* the survey with the shots of its shot lines, or their exception
WithShots(survey, shots) ==
    IF shots.err # "" THEN shots ELSE Ok(Some([survey EXCEPT !.shots = shots.v]))

\* parse from the Survey(...) call on; a file_format under 11 characters
\* raises ValueError in the setter
ParseShots(cave_name, name, date, comment, team, dfc, shot_header, shot_lines) ==
    IF dfc.fmt # <<>> /\ Len(dfc.fmt) < 11 THEN Raise("ValueError")
    ELSE WithShots(NewSurvey(name, date, comment, team, dfc.declination, dfc.fmt,
                             dfc.corrections, dfc.corrections2, cave_name, shot_header),
                   ParseShotLines(shot_lines, shot_header, ValCount(shot_header),
                                  dfc.declination))

\* parse from the declination line's outcome on
ParseHeader(cave_name, name, date, comment, team, dfc, shot_header, shot_lines) ==
    IF dfc.err # "" THEN dfc
    ELSE ParseShots(cave_name, name, date, comment, team, dfc.v, shot_header, shot_lines)

\* [member.strip() for member in line.split(',')]
StripAll(members) == [i \in 1..Len(members) |-> Strip(members[i])]

\* parse from the date's outcome on; rest are the lines from the date line on
ParseTeam(cave_name, name, date, comment, rest) ==
    IF date.err # "" THEN date
    ELSE ParseHeader(cave_name, name, date.v, comment,
                     StripAll(SplitOn(rest[3], <<",">>, Unlimited)),
                     ParseDeclinationLine(rest[4]),
                     SplitWords(rest[6], Unlimited), SubSeq(rest, 8, Len(rest)))

\* the date and the comment of the date line, split at 'COMMENT:'
ParseDateComment(cave_name, name, date_comment_toks, rest) ==
    ParseTeam(cave_name, name, ParseDate(date_comment_toks[1]),
              IF Len(date_comment_toks) > 1 THEN Strip(date_comment_toks[2]) ELSE <<>>,
              rest)

\* lines.pop(0).split('SURVEY DATE:', 1)[1].split('COMMENT:')
ParseDateLine(cave_name, name, date_toks, rest) ==
    IF Len(date_toks) < 2 THEN Raise("IndexError")
    ELSE ParseDateComment(cave_name, name, SplitOn(date_toks[2], T_COMMENT, Unlimited), rest)

\* parse once cave name and survey name are known
ParseNamed(cave_name, name, rest) ==
    ParseDateLine(cave_name, name, SplitOn(rest[1], T_SURVEY_DATE, 1), rest)

\* name = lines.pop(0).split('SURVEY NAME:', 1)[1].strip()
ParseNameLine(cave_name, name_toks, rest) ==
    IF Len(name_toks) < 2 THEN Raise("IndexError")
    ELSE ParseNamed(cave_name, Strip(name_toks[2]), rest)

NameLabelChars == {T_SURVEY_NAME[i] : i \in 1..Len(T_SURVEY_NAME)}

\* the cave name line may be missing: the first line is then the name line
ParseFirstLine(first_line, lines) ==
    IF StartsWith(first_line, T_SURVEY_NAME)
    THEN ParseNamed(<<>>, Strip(StripChars(first_line, NameLabelChars)), Tail(lines))
    ELSE ParseNameLine(first_line, SplitOn(lines[2], T_SURVEY_NAME, 1), Tail(Tail(lines)))

\* CompassSurveyParser.parse from the length test on
ParseLines(lines) ==
    IF Len(lines) < 10 THEN Raise("ParseException")
    ELSE ParseFirstLine(Strip(lines[1]), lines)

\* CompassSurveyParser.parse: a Survey, None for empty text, or an exception
ParseSurvey(survey_str) ==
    IF survey_str = <<>> THEN Ok(None) ELSE ParseLines(SplitLines(survey_str))

-----------------------------------------------------------------------------
(* davies/compass: writing a survey out and reading it back *)

MaxRtShots == 2

Txt_A1 == <<"A", "1">>
Txt_A2 == <<"A", "2">>
Txt_A3 == <<"A", "3">>

\* shots as a caller builds them: Shot(FROM=..., TO=..., LENGTH=..., ...)
SampleRtShots ==
    { Shot(<< <<K_FROM, V_Str(Txt_A1)>>, <<K_TO, V_Str(Txt_A2)>>,
              <<K_LENGTH, V_Num(Rat(123456, 10000))>>, <<K_BEARING, V_Num(Rat(91, 2))>>,
              <<K_INC, V_Num(Rat(-13, 4))>>, <<K_LEFT, V_Num(Rat(3, 2))>>,
              <<K_UP, V_Inf>>, <<K_DOWN, V_Num(RInt(0))>>, <<K_RIGHT, V_Num(RInt(2))>>,
              <<K_FLAGS, V_Str(<<"L">>)>>, <<K_COMMENTS, V_Str(<<"o", "k">>)>> >>, RInt(0)),
      Shot(<< <<K_FROM, V_Str(Txt_A2)>>, <<K_TO, V_Str(Txt_A3)>>,
              <<K_LENGTH, V_None>>, <<K_BEARING, V_Num(RInt(350))>>,
              <<K_INC, V_Num(RInt(0))>>, <<K_LEFT, V_Inf>>, <<K_UP, V_Inf>>,
              <<K_DOWN, V_Inf>>, <<K_RIGHT, V_Inf>> >>, RInt(0)),
      Shot(<< <<K_FROM, V_Str(Txt_A3)>>, <<K_TO, V_Str(Txt_A1)>>,
              <<K_LENGTH, V_Num(RInt(7))>>, <<K_BEARING, V_None>>, <<K_INC, V_None>>,
              <<K_LEFT, V_Num(RInt(1))>>, <<K_UP, V_Num(RInt(1))>>,
              <<K_DOWN, V_Num(RInt(1))>>, <<K_RIGHT, V_Inf>>,
              <<K_AZM2, V_Num(Rat(1441, 8))>>, <<K_INC2, V_Num(RInt(2))>>,
              <<K_FLAGS, V_Str(<<"P", "X">>)>> >>, RInt(0)),
      Shot(<< <<K_FROM, V_Str(Txt_A1)>>, <<K_TO, V_Str(Txt_A3)>>,
              <<K_LENGTH, V_Num(Rat(30004, 10000))>> >>, RInt(0)) }

SampleRtSurveys ==
    { NewSurvey(<<"S", "1">>, date, <<>>, << <<"A", "l">>, <<"B", "o">> >>, decl, <<>>,
                <<RInt(0), RInt(0), RInt(0)>>, <<RInt(0), RInt(0)>>, <<"C">>, hdr) :
        date \in {None, Some([y |-> 2015, m |-> 3, d |-> 7])},
        decl \in {RInt(0), Rat(17, 2)},
        hdr \in {<<>>, DEFAULT_HEADER, DEFAULT_HEADER_BACKSIGHTS} }

RoundTripIdle == rt_pc = "idle" /\ rt_survey = None /\ rt_text = <<>> /\ rt_parsed = None

\* survey.add_shot(shot)
RtAddShot(shot) ==
    /\ rt_pc = "built"
    /\ Len(Get(rt_survey).shots) < MaxRtShots
    /\ rt_survey' = Some([Get(rt_survey) EXCEPT
                            !.shots = SurveyAddShot(@, Get(rt_survey).declination, shot)])
    /\ UNCHANGED <<rt_pc, rt_text, rt_parsed>>

\* '\r\n'.join(survey._serialize())
RtSerialize ==
    /\ rt_pc = "built"
    /\ rt_text' = Join(Serialize(Get(rt_survey)), <<CR, LF>>)
    /\ rt_pc' = "written"
    /\ UNCHANGED <<rt_survey, rt_parsed>>

\* CompassSurveyParser(text).parse()
RtParse ==
    /\ rt_pc = "written"
    /\ rt_parsed' = Some(ParseSurvey(rt_text))
    /\ rt_pc' = "parsed"
    /\ UNCHANGED <<rt_survey, rt_text>>

-----------------------------------------------------------------------------
(* davies/compass: CompassDatParser *)

MaxBlocks == 3

\* the survey a data file holds, as DatFile.write lays it out before the form feed
OneShotSurvey(name) ==
    [NewSurvey(name, Some([y |-> 2015, m |-> 3, d |-> 7]), <<>>, << <<"A", "l">> >>,
               RInt(0), <<>>, <<RInt(0), RInt(0), RInt(0)>>, <<RInt(0), RInt(0)>>,
               <<"C">>, <<K_FROM, K_TO, K_LENGTH>>)
     EXCEPT !.shots = << Shot(<< <<K_FROM, V_Str(Txt_A1)>>, <<K_TO, V_Str(Txt_A2)>>,
                                 <<K_LENGTH, V_Num(RInt(5))>> >>, RInt(0)) >>]
SurveyText(name) == Join(Serialize(OneShotSurvey(name)), <<CR, LF>>)

\* the same survey with a LENGTH column that is no number
BadNumberText ==
    Join(SubSeq(Serialize(OneShotSurvey(<<"S", "3">>)), 1, 9)
         \o << Join(<<Txt_A1, Txt_A2, <<"x">>, <<>>>>, <<TAB>>) >>, <<CR, LF>>)

\* what may stand between two form feeds of a data file
SampleBlocks ==
    { <<CR, LF>> \o SurveyText(<<"S", "1">>) \o <<CR, LF>>,
      <<CR, LF>> \o SurveyText(<<"S", "2">>) \o <<CR, LF>>,
      <<CR, LF>> \o BadNumberText \o <<CR, LF>>,
      <<"j", "u", "n", "k", CR, LF>>,
      <<CR, LF>>,
      <<CR, LF, SUB>> }

SampleFiles ==
    { Join(blocks, <<FF>>) :
        blocks \in UNION { [1..n -> SampleBlocks] : n \in 1..MaxBlocks } }

DatIdle ==
    /\ dp_pc = "idle" /\ dp_contents = <<>> /\ dp_strs = <<>> /\ dp_surveys = <<>>
    /\ dp_result = None /\ dp_error = ""

\* survey_strs.pop() if the last one is the soft EOF
DropSoftEof(strs) ==
    IF strs[Len(strs)] = <<SUB>> THEN SubSeq(strs, 1, Len(strs) - 1) ELSE strs

\* survey_strs: the form-feed separated blocks, each stripped, less a last one
\* that is the soft EOF
SurveyStrs(full_contents) == DropSoftEof(StripAll(SplitOn(full_contents, <<FF>>, Unlimited)))

\* datobj.add_survey(survey) for the survey parser's outcome; its exception is
\* not caught
AddParsedOrSkip(surveys, out) ==
    IF out.err # "" THEN Ok(surveys) ELSE Ok(Append(surveys, Get(out.v)))
AddParsed(surveys, out) ==
    IF out.err # "" THEN Raise(out.err) ELSE Ok(Append(surveys, Get(out.v)))

\* the loop body for a non-empty survey_str
ParseBlock(surveys, survey_str) == AddParsed(surveys, ParseSurvey(survey_str))

\* parse() up to the loop: read the file, split it
DatOpen ==
    /\ dp_pc = "closed"
    /\ dp_strs' = SurveyStrs(dp_contents)
    /\ dp_surveys' = <<>>
    /\ dp_pc' = "loop"
    /\ UNCHANGED <<dp_contents, dp_result, dp_error>>

\* the loop goes on with the survey added, or parse is left by the exception
DatAdded(out) ==
    IF out.err # ""
    THEN /\ dp_pc' = "raised"
         /\ dp_error' = out.err
         /\ UNCHANGED <<dp_strs, dp_surveys>>
    ELSE /\ dp_surveys' = out.v
         /\ dp_strs' = Tail(dp_strs)
         /\ UNCHANGED <<dp_pc, dp_error>>

\* one turn of the loop
DatBlock ==
    /\ dp_pc = "loop"
    /\ dp_strs # <<>>
    /\ IF Head(dp_strs) = <<>>
       THEN /\ dp_strs' = Tail(dp_strs)
            /\ UNCHANGED <<dp_pc, dp_surveys, dp_error>>
       ELSE DatAdded(ParseBlock(dp_surveys, Head(dp_strs)))
    /\ UNCHANGED <<dp_contents, dp_result>>

\* return datobj
DatReturn ==
    /\ dp_pc = "loop"
    /\ dp_strs = <<>>
    /\ dp_result' = Some(dp_surveys)
    /\ dp_pc' = "returned"
    /\ UNCHANGED <<dp_contents, dp_strs, dp_surveys, dp_error>>

-----------------------------------------------------------------------------
(* davies/compass: DatFile.write *)

MaxSurveys == 2

Txt_k1 == <<"k", "1">>
Txt_k2 == <<"k", "2">>

\* a dated survey under the default header with that many measured shots
WrittenSurvey(name, cave_name, shot_count) ==
    [NewSurvey(name, Some([y |-> 2015, m |-> 3, d |-> 7]), <<>>, << <<"A", "l">> >>,
               RInt(0), <<>>, <<RInt(0), RInt(0), RInt(0)>>, <<RInt(0), RInt(0)>>,
               cave_name, DEFAULT_HEADER)
     EXCEPT !.shots = [i \in 1..shot_count |->
                         Shot(<< <<K_FROM, V_Str(Txt_A1)>>, <<K_TO, V_Str(Txt_A2)>>,
                                 <<K_LENGTH, V_Num(RInt(4 + i))>>,
                                 <<K_BEARING, V_Num(RInt(90))>>,
                                 <<K_INC, V_Num(RInt(0))>> >>, RInt(0))]]

SampleWrittenSurveys ==
    { WrittenSurvey(name, cave_name, shot_count) :
        name \in {Txt_k1, Txt_k2}, cave_name \in {<<>>, <<"C">>}, shot_count \in 0..2 }

WriteIdle == dw_surveys = <<>>

\* what DatFile.write writes for the surveys and then the soft EOF
RECURSIVE WriteSurveys(_)
WriteSurveys(surveys) ==
    IF surveys = <<>> THEN <<>>
    ELSE Join(Serialize(surveys[1]), <<CR, LF>>) \o <<CR, LF, FF, CR, LF>>
         \o WriteSurveys(Tail(surveys))
DatWrite(surveys) == WriteSurveys(surveys) \o <<SUB>>

\* DatFile.add_survey
DwAddSurvey(survey) ==
    /\ dp_pc = "unwritten"
    /\ Len(dw_surveys) < MaxSurveys
    /\ dw_surveys' = Append(dw_surveys, survey)
    /\ UNCHANGED dp_vars

\* DatFile.write
DwWrite ==
    /\ dp_pc = "unwritten"
    /\ dp_contents' = DatWrite(dw_surveys)
    /\ dp_pc' = "closed"
    /\ UNCHANGED <<dp_strs, dp_surveys, dp_result, dp_error, dw_surveys>>

-----------------------------------------------------------------------------
(* davies/compass/plt.py: CompassPltParser *)

MaxPltLines == 3

\* Plot.__init__; bounds holds ymin, ymax, xmin, xmax, zmin, zmax once set
Plot(name) ==
    [name |-> name, utm_zone |-> None, datum |-> None, bounds |-> None, edist |-> None,
     segments |-> <<>>, fixed_points |-> <<>>, loop_count |-> 0, loops |-> <<>>]

\* Segment.__init__
Segment(name, date, comment) ==
    [name |-> name, date |-> date, comment |-> comment, bounds |-> None, commands |-> <<>>]

\* Command.__init__ from the floats of the words y x z name _ l u d r _ edist
Command(cmd, fs, name, flags) ==
    [cmd |-> cmd, y |-> fs[1].val, x |-> fs[2].val, z |-> fs[3].val, name |-> name,
     l |-> fs[6].val, r |-> fs[9].val, u |-> fs[7].val, d |-> fs[8].val,
     edist |-> fs[11].val, flags |-> flags]

\* the parser between two lines: the plot, the open segment, the exception raised
PltState(plt, segment, err) == [plt |-> plt, segment |-> segment, err |-> err]
PltFail(st, e) == [st EXCEPT !.err = e]

\* int(text)
IntOfSigned(sign, ds) ==
    IF ds # <<>> /\ AllDigits(ds) THEN [ok |-> TRUE, val |-> sign * DigitsValue(ds)]
    ELSE [ok |-> FALSE, val |-> 0]
IntOfStripped(t) ==
    IntOfSigned(IF t # <<>> /\ t[1] = "-" THEN -1 ELSE 1,
                IF t # <<>> /\ t[1] \in {"-", "+"} THEN Tail(t) ELSE t)
ParseInt(text) == IntOfStripped(Strip(text))

FloatsOfWords(w) == [i \in 1..Len(w) |-> ParseFloat(w[i])]
FloatValues(fs, is) == [i \in 1..Len(is) |-> fs[is[i]].val]
AllFloats(fs, is) == \A i \in is : fs[i].ok

\* 'Z': six floats, or eight words of which the seventh is a label; the
\* edist handed to Plot.set_bounds is not kept (it sets self.edist = None)
PltBounds(st, w, fs) ==
    IF (Len(w) = 6 /\ AllFloats(fs, 1..6)) \/ (Len(w) = 8 /\ AllFloats(fs, (1..6) \cup {8}))
    THEN [st EXCEPT !.plt.bounds = Some(FloatValues(fs, <<1, 2, 3, 4, 5, 6>>)),
                    !.plt.edist = None]
    ELSE PltFail(st, "ValueError")

\* 'G' and 'C': int(val)
PltUtmZone(st, n) ==
    IF n.ok THEN [st EXCEPT !.plt.utm_zone = Some(n.val)] ELSE PltFail(st, "ValueError")
PltLoopCount(st, n) ==
    IF n.ok THEN [st EXCEPT !.plt.loop_count = n.val] ELSE PltFail(st, "ValueError")

\* datetime.date(int(y), int(m), int(d)) of the words m d y, None on ValueError
PltDateOf(m, d, y) ==
    IF m.ok /\ d.ok /\ y.ok /\ y.val <= 9999 /\ DateOf(m.val, d.val, y.val).err = ""
    THEN DateOf(m.val, d.val, y.val).v ELSE None
PltDate(w) == PltDateOf(ParseInt(w[3]), ParseInt(w[4]), ParseInt(w[5]))

\* 'N': name _ m d y comment, or name _ m d y, or the whole of val as the
\* name; the comment unpacked by the first attempt stays when its date fails
PltCommentOf(w6) == IF Len(w6) = 6 THEN Strip(Tail(w6[6])) ELSE <<>>
PltSegmentOf(val, w6, w, date6, date5) ==
    IF Len(w6) = 6 /\ date6 # None THEN Segment(w6[1], date6, PltCommentOf(w6))
    ELSE IF Len(w) = 5 /\ date5 # None THEN Segment(w[1], date5, <<>>)
    ELSE Segment(val, None, PltCommentOf(w6))
PltNewSegment(st, val, w6, w) ==
    [st EXCEPT !.segment =
        Some(PltSegmentOf(val, w6, w, IF Len(w6) = 6 THEN PltDate(w6) ELSE None,
                          IF Len(w) = 5 THEN PltDate(w) ELSE None))]

\* 'M', 'D' and 'd': eleven words, or twelve with flags
PltCommand(st, cmd, w, fs) ==
    IF Len(w) \notin {11, 12} \/ ~AllFloats(fs, {1, 2, 3, 6, 7, 8, 9, 11})
    THEN PltFail(st, "ValueError")
    ELSE IF st.segment = None THEN PltFail(st, "AttributeError")
    ELSE [st EXCEPT !.segment[1].commands =
            Append(@, Command(cmd, fs, Tail(w[4]),
                              IF Len(w) = 12 THEN Some(w[12]) ELSE None))]

\* 'X': Segment.set_bounds, Plot.add_segment, and no segment is open
PltEndSegmentKeepsOpen(st, w, fs) ==
    IF st.segment = None THEN PltFail(st, "AttributeError")
    ELSE IF ~AllFloats(fs, 1..Len(w)) THEN PltFail(st, "ValueError")
    ELSE IF Len(w) # 6 THEN PltFail(st, "TypeError")
    ELSE [st EXCEPT !.plt.segments =
                        Append(@, [Get(st.segment) EXCEPT
                                     !.bounds = Some(FloatValues(fs, <<1, 2, 3, 4, 5, 6>>))])]
PltEndSegment(st, w, fs) ==
    IF st.segment = None THEN PltFail(st, "AttributeError")
    ELSE IF ~AllFloats(fs, 1..Len(w)) THEN PltFail(st, "ValueError")
    ELSE IF Len(w) # 6 THEN PltFail(st, "TypeError")
    ELSE [st EXCEPT !.plt.segments =
                        Append(@, [Get(st.segment) EXCEPT
                                     !.bounds = Some(FloatValues(fs, <<1, 2, 3, 4, 5, 6>>))]),
                    !.segment = None]

\* OrderedDict.__setitem__ on a list of <<key, value>>
DictSet(items, key, value) ==
    IF \E i \in 1..Len(items) : items[i][1] = key
    THEN [i \in 1..Len(items) |-> IF items[i][1] = key THEN <<key, value>> ELSE items[i]]
    ELSE Append(items, <<key, value>>)

\* 'P': Plot.add_fixed_point
PltFixedPoint(st, w, fs) ==
    IF Len(w) # 4 \/ ~AllFloats(fs, 2..4) THEN PltFail(st, "ValueError")
    ELSE [st EXCEPT !.plt.fixed_points = DictSet(@, w[1], FloatValues(fs, <<2, 3, 4>>))]

\* 'R': Plot.add_loop
PltLoop(st, w5) ==
    IF Len(w5) # 5 \/ ~ParseInt(w5[1]).ok THEN PltFail(st, "ValueError")
    ELSE [st EXCEPT !.plt.loops =
            Append(@, <<ParseInt(w5[1]).val, w5[2], w5[3], w5[4], SplitWords(w5[5], Unlimited)>>)]

\* the else branch: a control code that is none of the above
PltUnknownAlwaysRaises(st, strict_mode) == PltFail(st, "ParseException")
PltUnknown(st, strict_mode) == IF strict_mode THEN PltFail(st, "ParseException") ELSE st

\* the body of the loop over the lines of the file, for c, val = line[:1], line[1:]
PltDispatch(st, strict_mode, c, val, w, fs) ==
    IF c = "Z" THEN PltBounds(st, w, fs)
    ELSE IF c = "S" THEN (IF st.plt.name = <<>> THEN [st EXCEPT !.plt.name = Strip(val)] ELSE st)
    ELSE IF c = "G" THEN PltUtmZone(st, ParseInt(val))
    ELSE IF c = "O" THEN [st EXCEPT !.plt.datum = Some(val)]
    ELSE IF c = "N" THEN PltNewSegment(st, val, SplitWords(val, 5), w)
    ELSE IF c = "M" THEN PltCommand(st, "M", w, fs)
    ELSE IF c \in {"D", "d"} THEN PltCommand(st, c, w, fs)
    ELSE IF c = "X" THEN PltEndSegment(st, w, fs)
    ELSE IF c = "P" THEN PltFixedPoint(st, w, fs)
    ELSE IF c = "C" THEN PltLoopCount(st, ParseInt(val))
    ELSE IF c = "R" THEN PltLoop(st, SplitWords(val, 4))
    ELSE IF c = SUB THEN st
    ELSE PltUnknown(st, strict_mode)
PltSplit(st, strict_mode, c, val, w) == PltDispatch(st, strict_mode, c, val, w, FloatsOfWords(w))
PltStep(st, strict_mode, line) ==
    IF line = <<>> THEN st
    ELSE PltSplit(st, strict_mode, line[1], Tail(line), SplitWords(Tail(line), Unlimited))

\* the whole loop: the state when the lines run out or a line raises
RECURSIVE PltRun(_, _, _)
PltRun(st, strict_mode, lines) ==
    IF lines = <<>> \/ st.err # "" THEN st
    ELSE PltRun(PltStep(st, strict_mode, lines[1]), strict_mode, Tail(lines))

\* lines of a plot file: bounds, bounds with an error distance, zone, a
\* segment header, a move, a hidden draw with flags, segment bounds, a fixed
\* point, a line with the control code Q, an empty line, and the soft end of
\* file
SampleLines ==
    { <<"Z", " ", "1", " ", "2", " ", "3", " ", "4", " ", "5", " ", "6", CR, LF>>,
      <<"Z", " ", "6", " ", "5", " ", "4", " ", "3", " ", "2", " ", "1", " ", "I", " ", "7",
        CR, LF>>,
      <<"G", "1", "7", CR, LF>>,
      <<"N", " ", "A", " ", "D", " ", "1", " ", "2", " ", "2", "0", "1", "5", " ", "C",
        " ", "c", CR, LF>>,
      <<"M", " ", "1", " ", "2", " ", "3", " ", "S", "A", " ", "P", " ", "1", " ", "2",
        " ", "3", " ", "4", " ", "I", " ", "5", CR, LF>>,
      <<"d", " ", "1", " ", "2", " ", "3", " ", "S", "B", " ", "P", " ", "1", " ", "2",
        " ", "3", " ", "4", " ", "I", " ", "5", " ", "L", CR, LF>>,
      <<"X", " ", "1", " ", "2", " ", "3", " ", "4", " ", "5", " ", "6", CR, LF>>,
      <<"P", " ", "A", " ", "1", " ", "2", " ", "3", CR, LF>>,
      <<"Q", " ", "1", CR, LF>>,
      <<CR, LF>>,
      <<SUB, CR, LF>> }

\* lines of a plot file that open, fill and close segments: two segment
\* headers, a move, a hidden draw with flags, and segment bounds
MaxSegmentLines == 6
SegmentLines ==
    { <<"N", " ", "A", " ", "D", " ", "1", " ", "2", " ", "2", "0", "1", "5", " ", "C",
        " ", "c", CR, LF>>,
      <<"N", " ", "B", " ", "D", " ", "1", " ", "3", " ", "2", "0", "1", "5", CR, LF>>,
      <<"M", " ", "1", " ", "2", " ", "3", " ", "S", "A", " ", "P", " ", "1", " ", "2",
        " ", "3", " ", "4", " ", "I", " ", "5", CR, LF>>,
      <<"d", " ", "1", " ", "2", " ", "3", " ", "S", "B", " ", "P", " ", "1", " ", "2",
        " ", "3", " ", "4", " ", "I", " ", "5", " ", "L", CR, LF>>,
      <<"X", " ", "1", " ", "2", " ", "3", " ", "4", " ", "5", " ", "6", CR, LF>> }

PltIdle ==
    /\ pl_pc = "idle" /\ pl_strict = FALSE /\ pl_file = <<>>
    /\ pl_plt = None /\ pl_segment = None /\ pl_result = None /\ pl_error = ""

\* CompassPltParser(pltfilename, strict_mode) and parse() up to the loop; the
\* file is p.plt
PltOpen(strict_mode) ==
    /\ pl_pc = "closed"
    /\ pl_pc' = "loop"
    /\ pl_strict' = strict_mode
    /\ pl_plt' = Some(Plot(<<"p">>))
    /\ pl_segment' = None
    /\ UNCHANGED <<pl_file, pl_result, pl_error>>

\* one turn of the loop, for the line the file gives next
PltTurn(st) ==
    /\ pl_plt' = Some(st.plt)
    /\ pl_segment' = st.segment
    /\ pl_error' = st.err
    /\ pl_pc' = IF st.err = "" THEN "loop" ELSE "raised"
    /\ UNCHANGED <<pl_strict, pl_result>>
PltLine(line, limit) ==
    /\ pl_pc = "loop"
    /\ Len(pl_file) < limit
    /\ pl_file' = Append(pl_file, line)
    /\ PltTurn(PltStep(PltState(Get(pl_plt), pl_segment, ""), pl_strict, line))

\* the file has no more lines: return plt
PltReturn ==
    /\ pl_pc = "loop"
    /\ pl_result' = pl_plt
    /\ pl_pc' = "returned"
    /\ UNCHANGED <<pl_strict, pl_file, pl_plt, pl_segment, pl_error>>

-----------------------------------------------------------------------------
(* __getitem__ of DatFile, Project, Plot and TxtFile *)

MaxItems == 3
Containers == {"DatFile", "Project", "Plot", "TxtFile"}
ItemNames == {"a", "b"}

\* an element as constructed: a Survey, DatFile or Segment with its name;
\* oid tells apart objects that carry the same name
Element(name, oid) == [name |-> name, oid |-> oid, length_units |-> "", angle_units |-> 0]

\* the item of container[item]: a name, or an object
StrItem(name) == [t |-> "str", v |-> name]
ObjItem(x) == [t |-> "obj", v |-> x]

\* add_survey, add_linked_file, add_segment: append; TxtFile.add_survey
\* first stamps the file's units on the survey
AddElement(kind, items, x) ==
    IF kind = "TxtFile"
    THEN Append(items, [x EXCEPT !.length_units = "m", !.angle_units = 360])
    ELSE Append(items, x)

\* item == x.name or item == x; Plot compares with segment.name only
ItemMatches(kind, item, x) ==
    \/ item.t = "str" /\ item.v = x.name
    \/ kind # "Plot" /\ item.t = "obj" /\ item.v = x

\* the loop of __getitem__: the first element that matches, else KeyError
LastMatch(items, hits) ==
    IF hits = {} THEN Raise("KeyError") ELSE Ok(items[CHOOSE i \in hits : \A j \in hits : j <= i])
FirstMatch(items, hits) ==
    IF hits = {} THEN Raise("KeyError") ELSE Ok(items[Least(hits)])
GetItem(kind, items, item) ==
    FirstMatch(items, {i \in 1..Len(items) : ItemMatches(kind, item, items[i])})

LookupIdle == lk_kind = "" /\ lk_items = <<>> /\ lk_made = 0 /\ lk_out = None

\* DatFile(), Project(), Plot(), TxtFile()
LkNew(kind) ==
    /\ lk_kind = ""
    /\ lk_kind' = kind
    /\ UNCHANGED <<lk_items, lk_made, lk_out>>

\* add_survey / add_linked_file / add_segment of a newly made element
LkAdd(name) ==
    /\ lk_kind # ""
    /\ Len(lk_items) < MaxItems
    /\ lk_made' = lk_made + 1
    /\ lk_items' = AddElement(lk_kind, lk_items, Element(name, lk_made + 1))
    /\ UNCHANGED <<lk_kind, lk_out>>

\* container[item]
LkGetItem(item) ==
    /\ lk_kind # ""
    /\ lk_out' = Some([item |-> item, out |-> GetItem(lk_kind, lk_items, item)])
    /\ UNCHANGED <<lk_kind, lk_items, lk_made>>

-----------------------------------------------------------------------------
(* compass.Survey.file_format *)

MaxFormatLen == 16

\* descriptors: the leading characters of three texts, from nine characters up
FormatTexts ==
    { <<"a", "b", "c", "d", "e", "f", "g", "h", "i", "j", "k", "l", "m", "n", "o", "p", "q", "r">>,
      <<"D", "M", "M", "G", "L", "R", "U", "D", "L", "A", "D", "a", "d", "B", "T", "x", "y", "z">>,
      <<"D", "D", "D", "D", "U", "D", "L", "R", "L", "A", "D", "N", "F", "T", "w", "v", "u", "t">> }
SampleFormats == {SubSeq(t, 1, n) : t \in FormatTexts, n \in 9..MaxFormatLen}

\* a Survey constructed without file_format
FormatIdle == ff_format = DefaultFormat /\ ff_fmt = <<>> /\ ff_result = "ok"

\* survey.file_format = fmt
FfAssign(fmt) ==
    /\ ff_fmt' = fmt
    /\ IF Len(fmt) < 11
       THEN ff_result' = "ValueError" /\ UNCHANGED ff_format
       ELSE ff_result' = "ok" /\ ff_format' = SetFileFormat(fmt)

\* survey.file_format = survey.file_format: the getter's text assigned back
FfReassign == FfAssign(FileFormat(ff_format))

-----------------------------------------------------------------------------
(* davies/compass: CompassSurveyParser on survey strings *)

\* survey names; some begin or end with a character of the label 'SURVEY NAME:'
SampleNames == {Txt_k1, <<"S", "A", "M">>, <<"A", "1">>, <<"x", "E">>}
\* column texts that are neither numbers nor no-data marks
SampleColumnTexts == {<<"x">>, <<"1", "2", "a">>}
\* a layout: the cave name, whether the text is stripped as CompassDatParser
\* strips a block, the survey name, and the column (counted from 1) of the
\* first shot line that holds `text` in place of its number, 0 for none
SampleLayouts ==
    [cave_name : {<<>>, <<"C">>}, stripped : BOOLEAN, name : SampleNames,
     col : {0}, text : {<<>>}]
    \cup [cave_name : {<<>>, <<"C">>}, stripped : BOOLEAN, name : SampleNames,
          col : 3..9, text : SampleColumnTexts]

\* the lines of a survey of two shots as Survey._serialize writes them, with
\* one column of the first shot line (line 10) replaced
WithColumn(lines, columns, col, text) ==
    [lines EXCEPT ![10] = Join([columns EXCEPT ![col] = text], <<TAB>>)]
LayoutLines(in, lines) ==
    IF in.col = 0 THEN lines
    ELSE WithColumn(lines, SplitOn(lines[10], <<TAB>>, Unlimited), in.col, in.text)
LayoutText(in, text) == IF in.stripped THEN Strip(text) ELSE text
SurveyString(in) ==
    LayoutText(in, Join(LayoutLines(in, Serialize(WrittenSurvey(in.name, in.cave_name, 2))),
                        <<CR, LF>>))

ParseIdle == ps_pc = "idle" /\ ps_in = None /\ ps_text = <<>> /\ ps_out = None

\* CompassSurveyParser(survey_str)
PsNew(in) ==
    /\ ps_pc = "new"
    /\ ps_in' = Some(in)
    /\ ps_text' = SurveyString(in)
    /\ ps_pc' = "made"
    /\ UNCHANGED ps_out

\* parse()
PsParse ==
    /\ ps_pc = "made"
    /\ ps_out' = Some(ParseSurvey(ps_text))
    /\ ps_pc' = "parsed"
    /\ UNCHANGED <<ps_in, ps_text>>

-----------------------------------------------------------------------------
(* davies/pockettopo: PocketTopoTxtParser *)

MaxTxtLines == 2

\* characters that are neither \w nor \s, among those the sample files use
NonWordChars == {"(", ")", ",", "[", "]", ":", "/", ".", "-", "+", "\""}
\* the first position from i on that holds no [\w\s] character
RunEnd(s, i) == Least({j \in i..(Len(s) + 1) : j > Len(s) \/ s[j] \in NonWordChars})
CharIs(s, i, c) == i <= Len(s) /\ s[i] = c

\* first_line_re.search(first_line).groups() for ^([\w\s]*)\(([\w\s]*),([\w\s]*)
GroupsAt(s, p, q, r) ==
    IF CharIs(s, p, "(") /\ CharIs(s, q, ",")
    THEN Ok(<<SubSeq(s, 1, p - 1), SubSeq(s, p + 1, q - 1), SubSeq(s, q + 1, r - 1)>>)
    ELSE Raise("AttributeError")
GroupsFrom(s, p, q) == GroupsAt(s, p, q, RunEnd(s, q + 1))
FirstLineGroups(s) == GroupsFrom(s, RunEnd(s, 1), RunEnd(s, RunEnd(s, 1) + 1))

\* TxtFile.__init__
TxtFile(name, length_units, angle_units) ==
    IF length_units \notin {<<"m">>, <<"f", "e", "e", "t">>} \/ angle_units \notin {360, 400}
    THEN Raise("Exception")
    ELSE Ok([name |-> name, length_units |-> length_units, angle_units |-> angle_units,
             surveys |-> <<>>, reference_points |-> <<>>])

\* cave_name, angle_units = cave_name.strip(), int(angle_units); TxtFile(...)
TxtFileOfUnits(groups, angle_units) ==
    IF ~angle_units.ok THEN Raise("ValueError")
    ELSE TxtFile(Strip(groups[1]), groups[2], angle_units.val)
TxtFileOfGroups(groups) ==
    IF groups.err # "" THEN groups ELSE TxtFileOfUnits(groups.v, ParseInt(groups.v[3]))

\* while not lines[0]: lines.pop(0); what is left, None when lines[0] runs off
\* the end of the list (IndexError)
RECURSIVE SkipBlanks(_)
SkipBlanks(lines) ==
    IF lines = <<>> THEN None
    ELSE IF lines[1] = <<>> THEN SkipBlanks(Tail(lines)) ELSE Some(lines)

\* datetime.strptime(date, '%Y/%m/%d').date()
DateOfYmd(w) ==
    IF /\ Len(w) = 3 /\ \A i \in 1..3 : w[i] # <<>> /\ AllDigits(w[i])
       /\ Len(w[1]) = 4 /\ Len(w[2]) <= 2 /\ Len(w[3]) <= 2
       /\ DateOf(DigitsValue(w[2]), DigitsValue(w[3]), DigitsValue(w[1])).err = ""
    THEN DateOf(DigitsValue(w[2]), DigitsValue(w[3]), DigitsValue(w[1]))
    ELSE Raise("ValueError")

\* SurveyClass(id, date, comment, declination, cave_name), as
\* TxtFile.add_survey leaves it
BSurvey(txtobj, merging, id, date, comment, declination) ==
    [name |-> id, date |-> date, comment |-> comment, decl |-> declination,
     cave_name |-> txtobj.name, length_units |-> txtobj.length_units,
     units |-> txtobj.angle_units, merging |-> merging,
     shots |-> <<>>, splays |-> [st \in Stations |-> <<>>]]

\* one line of the block that declares the surveys
HeaderOfToks(txtobj, merging, toks, date, declination) ==
    IF date.err # "" THEN date
    ELSE IF ~declination.ok THEN Raise("ValueError")
    ELSE Ok([txtobj EXCEPT !.surveys =
               Append(@, BSurvey(txtobj, merging, StripChars(toks[1], {"[", "]", ":"}),
                                 date.v, IF Len(toks) = 4 THEN StripChars(toks[4], {"\""})
                                         ELSE <<>>,
                                 declination.val))])
HeaderToks(txtobj, merging, toks) ==
    IF Len(toks) < 3 THEN Raise("ValueError")
    ELSE HeaderOfToks(txtobj, merging, toks,
                      DateOfYmd(SplitOn(toks[2], <<"/">>, Unlimited)), ParseFloat(toks[3]))
HeaderLine(txtobj, merging, line) == HeaderToks(txtobj, merging, SplitWords(line, 3))

\* a station name of one character, as the name the merging model uses
StationName(tok) == IF Len(tok) = 1 /\ tok[1] \in Stations THEN tok[1] ELSE "?"

\* a line without '[': a reference point, or a line that is skipped
ReferenceOfVals(txtobj, station, fs, comment) ==
    IF \E i \in 1..3 : ~fs[i].ok THEN Raise("ValueError")
    ELSE IF fs[1].val = RInt(0) THEN Ok(txtobj)
    ELSE Ok([txtobj EXCEPT !.reference_points =
               DictSet(@, station, [easting |-> fs[1].val, northing |-> fs[2].val,
                                    elevation |-> fs[3].val, comment |-> comment])])
ReferenceLine(txtobj, toks, comment) ==
    IF Len(toks) # 4 THEN Ok(txtobj)
    ELSE ReferenceOfVals(txtobj, toks[1], FloatsOfWords(Tail(toks)), comment)

\* txtobj[survey_id].add_shot(shot)
AddToSurvey(txtobj, i, shot) ==
    IF i = 0 THEN Raise("KeyError")
    ELSE Ok([txtobj EXCEPT !.surveys[i] =
               IF @.merging THEN MergingAddShot(@, shot) ELSE PlainAddShot(@, shot)])
AddShotTo(txtobj, survey_id, shot) ==
    AddToSurvey(txtobj, Least({i \in 1..Len(txtobj.surveys) : txtobj.surveys[i].name = survey_id}),
                shot)

\* the from_to test: a shot, a splay, a skipped placeholder, or an exception
ShotOfFloats(txtobj, survey_id, from_to, fs, comment) ==
    IF \E i \in 1..3 : ~fs[i].ok THEN Raise("ValueError")
    ELSE IF Len(from_to) = 2
    THEN AddShotTo(txtobj, survey_id,
                   BShot(StationName(from_to[1]), Some(StationName(from_to[2])),
                         fs[1].val, fs[2].val, fs[3].val, comment))
    ELSE IF Len(from_to) = 1
    THEN AddShotTo(txtobj, survey_id,
                   BShot(StationName(from_to[1]), None, fs[1].val, fs[2].val, fs[3].val,
                         comment))
    ELSE IF from_to = <<>> /\ fs[1].val = RInt(0) THEN Ok(txtobj)
    ELSE Raise("Exception")
ShotOfToks(txtobj, survey_id, toks, comment) ==
    IF Len(toks) < 3 THEN Raise("ValueError")
    ELSE ShotOfFloats(txtobj, survey_id, SubSeq(toks, 1, Len(toks) - 3),
                      FloatsOfWords(SubSeq(toks, Len(toks) - 2, Len(toks))), comment)
ShotLine(txtobj, parts, comment) ==
    IF Len(parts) # 2 THEN Raise("ValueError")
    ELSE ShotOfToks(txtobj, RStripChars(RStrip(parts[2]), {"]"}),
                    SplitWords(parts[1], Unlimited), comment)

\* one line of the survey data, after the comment in quotes is taken off
DataOfText(txtobj, line, comment) ==
    IF Find(line, <<"[">>) = 0 THEN ReferenceLine(txtobj, SplitWords(line, Unlimited), comment)
    ELSE ShotLine(txtobj, SplitOn(line, <<"[">>, Unlimited), comment)
DataAtQuote(txtobj, line, q) ==
    IF q = 0 THEN DataOfText(txtobj, line, None)
    ELSE DataOfText(txtobj, SubSeq(line, 1, q - 1),
                    Some(RStripChars(SubSeq(line, q + 1, Len(line)), {"\""})))
DataStripped(txtobj, line) ==
    IF line = <<>> THEN Ok(txtobj) ELSE DataAtQuote(txtobj, line, Find(line, <<"\"">>))
DataLine(txtobj, line) == DataStripped(txtobj, Strip(line))

\* sample files: a first line, a blank line, the lines that declare surveys 1
\* and 2, a blank line, and up to MaxTxtLines lines of survey data: a shot, its
\* reverse with a comment, a splay, a zero-length placeholder, a line without
\* stations, one with three stations, a shot of survey 9, a reference point
\* and a blank line
TxtFirstLine == <<"C", "a", "v", "e", " ", "(", "m", ",", " ", "3", "6", "0", ")">>
TxtHeaders ==
    << <<"[", "1", "]", ":", " ", "2", "0", "1", "5", "/", "0", "3", "/", "0", "7", " ",
         "0", ".", "0">>,
       <<"[", "2", "]", ":", " ", "2", "0", "1", "5", "/", "0", "3", "/", "0", "8", " ",
         "1", ".", "5", " ", "\"", "c", "\"">> >>
SampleDataLines ==
    { <<"A", " ", "B", " ", "5", ".", "0", " ", "9", "0", ".", "0", " ", "0", ".", "0", " ",
        "[", "1", "]">>,
      <<"B", " ", "A", " ", "5", ".", "0", " ", "2", "7", "0", ".", "0", " ", "0", ".", "0",
        " ", "[", "1", "]", " ", "\"", "r", "\"">>,
      <<"A", " ", "1", ".", "0", " ", "0", ".", "0", " ", "0", ".", "0", " ", "[", "2",
        "]">>,
      <<"0", ".", "0", " ", "0", ".", "0", " ", "0", ".", "0", " ", "[", "1", "]">>,
      <<"5", ".", "0", " ", "9", "0", ".", "0", " ", "0", ".", "0", " ", "[", "1", "]">>,
      <<"A", " ", "B", " ", "C", " ", "5", ".", "0", " ", "9", "0", ".", "0", " ", "0", ".",
        "0", " ", "[", "1", "]">>,
      <<"A", " ", "B", " ", "5", ".", "0", " ", "9", "0", ".", "0", " ", "0", ".", "0", " ",
        "[", "9", "]">>,
      <<"A", " ", "1", ".", "0", " ", "2", ".", "0", " ", "3", ".", "0">>,
      <<>> }
SampleTxtFiles ==
    { <<TxtFirstLine, <<>>>> \o SubSeq(TxtHeaders, 1, h) \o << <<>> >> \o data :
        h \in 0..2, data \in UNION { [1..n -> SampleDataLines] : n \in 0..MaxTxtLines } }

TxtIdle ==
    /\ tx_pc = "idle" /\ tx_merge = FALSE /\ tx_lines = <<>> /\ tx_txtobj = None
    /\ tx_result = None /\ tx_error = ""

\* an exception leaves parse
TxRaise(e) ==
    /\ tx_pc' = "raised"
    /\ tx_error' = e
    /\ UNCHANGED tx_result

\* PocketTopoTxtParser(txtfilename, merge_duplicate_shots) and parse() up to
\* the block that declares the surveys
TxOpened(made, rest) ==
    IF made.err # "" THEN TxRaise(made.err) /\ tx_lines' = rest /\ tx_txtobj' = None
    ELSE IF SkipBlanks(rest) = None
    THEN TxRaise("IndexError") /\ tx_lines' = <<>> /\ tx_txtobj' = Some(made.v)
    ELSE /\ tx_pc' = "headers" /\ tx_lines' = Get(SkipBlanks(rest))
         /\ tx_txtobj' = Some(made.v) /\ UNCHANGED <<tx_result, tx_error>>
TxOpen(lines, merge_duplicate_shots) ==
    /\ tx_pc = "closed"
    /\ tx_merge' = merge_duplicate_shots
    /\ IF lines = <<>>
       THEN TxRaise("IndexError") /\ UNCHANGED <<tx_lines, tx_txtobj>>
       ELSE TxOpened(TxtFileOfGroups(FirstLineGroups(lines[1])), Tail(lines))

\* one turn of `while lines[0].startswith('[')`, or its end and the blank
\* lines that follow
TxHeaderRead(out) ==
    IF out.err # "" THEN TxRaise(out.err) /\ tx_lines' = Tail(tx_lines) /\ UNCHANGED tx_txtobj
    ELSE /\ tx_txtobj' = Some(out.v) /\ tx_lines' = Tail(tx_lines)
         /\ UNCHANGED <<tx_pc, tx_result, tx_error>>
TxHeader ==
    /\ tx_pc = "headers"
    /\ UNCHANGED tx_merge
    /\ IF tx_lines = <<>>
       THEN TxRaise("IndexError") /\ UNCHANGED <<tx_lines, tx_txtobj>>
       ELSE IF StartsWith(tx_lines[1], <<"[">>)
       THEN TxHeaderRead(HeaderLine(Get(tx_txtobj), tx_merge, tx_lines[1]))
       ELSE IF SkipBlanks(tx_lines) = None
       THEN TxRaise("IndexError") /\ tx_lines' = <<>> /\ UNCHANGED tx_txtobj
       ELSE /\ tx_pc' = "data" /\ tx_lines' = Get(SkipBlanks(tx_lines))
            /\ UNCHANGED <<tx_txtobj, tx_result, tx_error>>

\* one turn of `while lines`
TxDataRead(out) ==
    IF out.err # "" THEN TxRaise(out.err) /\ tx_lines' = Tail(tx_lines) /\ UNCHANGED tx_txtobj
    ELSE /\ tx_txtobj' = Some(out.v) /\ tx_lines' = Tail(tx_lines)
         /\ UNCHANGED <<tx_pc, tx_result, tx_error>>
TxData ==
    /\ tx_pc = "data"
    /\ tx_lines # <<>>
    /\ UNCHANGED tx_merge
    /\ TxDataRead(DataLine(Get(tx_txtobj), tx_lines[1]))

\* return txtobj
TxReturn ==
    /\ tx_pc = "data"
    /\ tx_lines = <<>>
    /\ tx_result' = tx_txtobj
    /\ tx_pc' = "returned"
    /\ UNCHANGED <<tx_merge, tx_lines, tx_txtobj, tx_error>>

-----------------------------------------------------------------------------
(* davies/compass: Project *)

MaxLinked == 3

\* compass.UTMLocation.__init__
UTMLocation(easting, northing, elevation, zone, datum, convergence) ==
    [easting |-> easting, northing |-> northing, elevation |-> elevation, zone |-> zone,
     datum |-> datum, convergence |-> convergence]
SampleLocations ==
    { UTMLocation(RInt(500000), RInt(4000000), RInt(100), 17, "North American 1927", Rat(3, 2)),
      UTMLocation(RInt(510000), RInt(4000500), RInt(90), 18, "North American 1983", RInt(0)),
      UTMLocation(RInt(520000), RInt(4001000), RInt(80), 16, "WGS 1984", Rat(-1, 2)) }
SampleDatFiles == {"d1", "d2"}
SampleStations == {"A"}

\* _utm_zone, _utm_datum, _utm_convergence taken from a location
UtmOf(location) ==
    [zone |-> Some(location.zone), datum |-> Some(location.datum),
     convergence |-> Some(location.convergence)]
NoUtm == [zone |-> None, datum |-> None, convergence |-> None]

\* OrderedDict.get on a list of <<key, value>>, default when the key is absent
DictGet(items, key, default) ==
    IF \E i \in 1..Len(items) : items[i][1] = key
    THEN items[CHOOSE i \in 1..Len(items) : items[i][1] = key][2]
    ELSE default

\* Project.__init__
ProjectIdle == pj_base = None /\ pj_utm = NoUtm /\ pj_fixed = <<>> /\ pj_calls = <<>>

\* Project.set_base_location
SetBaseLocation(location) ==
    /\ pj_base' = Some(location)
    /\ pj_utm' = UtmOf(location)
    /\ UNCHANGED <<pj_fixed, pj_calls>>

\* Project.add_linked_station; location is None or a UTMLocation
SeedsUtm(location) == location # None /\ pj_base = None
AddLinkedStation(datfile, station, location) ==
    /\ Len(pj_calls) < MaxLinked
    /\ pj_fixed' = DictSet(pj_fixed, datfile,
                           DictSet(DictGet(pj_fixed, datfile, <<>>), station, location))
    /\ pj_utm' = IF SeedsUtm(location) THEN UtmOf(Get(location)) ELSE pj_utm
    /\ pj_calls' = Append(pj_calls, location)
    /\ UNCHANGED pj_base

-----------------------------------------------------------------------------
(* examples/compass_high_angle_hist.py: compass_stats *)

MaxHistShots == 3
BinSize == 5
HighAngle == 60

\* shots with the inclinations 0, -30, 59.5, 60, -75, 90 and -90, and one
\* with a backsight: INC 70 and INC2 -60, corrected 65
SampleIncShots ==
    { Shot(<<<<K_INC, V_Num(inc)>>>>, RInt(0)) :
        inc \in {RInt(0), RInt(-30), Rat(119, 2), RInt(60), RInt(-75), RInt(90), RInt(-90)} }
    \cup { Shot(<<<<K_INC, V_Num(RInt(70))>>, <<K_INC2, V_Num(RInt(-60))>>>>, RInt(0)) }

\* histogram = [0 for bin in range(0, 91, bin_size)]
EmptyHistogram == [b \in 1..((90 \div BinSize) + 1) |-> 0]

\* int(abs(shot.inc) // bin_size), as a 0-based index
RAbs(x) == <<Abs(x[1]), x[2]>>
BinOf(inc) == FloorDiv(RAbs(inc)[1], RAbs(inc)[2] * BinSize)

\* sum(histogram[lo:hi]) for 0-based lo and a negative or absent hi
RECURSIVE SumInts(_)
SumInts(s) == IF s = <<>> THEN 0 ELSE s[1] + SumInts(Tail(s))
SliceWithLast(histogram, lo) == SubSeq(histogram, lo + 1, Len(histogram))
Slice(histogram, lo) == SubSeq(histogram, lo + 1, Len(histogram) - 1)

HistIdle ==
    /\ hi_pc = "idle" /\ hi_shots = <<>> /\ hi_histogram = <<>>
    /\ hi_n = 0 /\ hi_high_n = 0 /\ hi_error = ""

\* one turn of `for shot in survey`
HistBin(inc) ==
    IF inc.t # "num" THEN hi_pc' = "raised" /\ hi_error' = "TypeError" /\ UNCHANGED hi_histogram
    ELSE IF BinOf(NumOf(inc)) >= Len(hi_histogram)
    THEN hi_pc' = "raised" /\ hi_error' = "IndexError" /\ UNCHANGED hi_histogram
    ELSE /\ hi_histogram' = [hi_histogram EXCEPT ![BinOf(NumOf(inc)) + 1] = @ + 1]
         /\ UNCHANGED <<hi_pc, hi_error>>
HistShot(shot) ==
    /\ hi_pc = "loop"
    /\ Len(hi_shots) < MaxHistShots
    /\ hi_shots' = Append(hi_shots, shot)
    /\ HistBin(Inc(shot))
    /\ UNCHANGED <<hi_n, hi_high_n>>

\* the files have no more shots: n, high_n and high_n_percent
HistSummary ==
    /\ hi_pc = "loop"
    /\ hi_n' = SumInts(hi_histogram)
    /\ hi_high_n' = SumInts(Slice(hi_histogram, HighAngle \div BinSize))
    /\ IF SumInts(hi_histogram) = 0
       THEN hi_pc' = "raised" /\ hi_error' = "ZeroDivisionError"
       ELSE hi_pc' = "done" /\ UNCHANGED hi_error
    /\ UNCHANGED <<hi_shots, hi_histogram>>

-----------------------------------------------------------------------------
(* examples/pockettopo2compass.py *)

MaxInShots == 3
LRUD_DELTA == 60
VertInc == 30

RLeq(x, y) == x[1] * y[2] <= y[1] * x[2]
RECURSIVE RMaxOf(_)
RMaxOf(s) ==
    IF Len(s) = 1 THEN s[1]
    ELSE IF RLeq(RMaxOf(Tail(s)), s[1]) THEN s[1] ELSE RMaxOf(Tail(s))

\* survey_math.m2ft
m2ft(m) == RMul(m, Rat(328084, 100000))

\* math.cos and math.sin of math.radians(inc), at the inclinations where the
\* float result is exact
CosDeg(inc) == CASE inc = RInt(0) -> RInt(1)
SinDeg(inc) == CASE inc = RInt(0) -> RInt(0) [] inc = RInt(90) -> RInt(1) [] inc = RInt(-90) -> RInt(-1)

\* survey_math.hd, survey_math.vd, survey_math.angle_delta
hd(inc, sd) == RMul(sd, CosDeg(inc))
vd(inc, sd) == RAbs(RMul(sd, SinDeg(inc)))
angle_delta(a1, a2) == RSub(RInt(180), RAbs(RSub(RAbs(RSub(a1, a2)), RInt(180))))

\* find_candidate_splays and find_candidate_vert_splays
find_candidate_splays(splays, azm, inc) ==
    SelectSeq(splays, LAMBDA splay :
        /\ RLeq(angle_delta(splay.AZM, azm), RInt(LRUD_DELTA \div 2))
        /\ RLeq(angle_delta(splay.INC, inc), RInt(LRUD_DELTA \div 2)))
find_candidate_vert_splays(splays, inc) ==
    IF inc = 90 THEN SelectSeq(splays, LAMBDA splay : RLeq(RInt(VertInc), splay.INC))
    ELSE SelectSeq(splays, LAMBDA splay : RLeq(splay.INC, RInt(-VertInc)))

\* max(candidates, key=...) and the distance of the chosen splay, or 0
Farthest(candidates, Dist(_, _)) ==
    IF candidates = <<>> THEN RInt(0)
    ELSE RMaxOf([i \in 1..Len(candidates) |-> Dist(candidates[i].INC, candidates[i].LENGTH)])

\* shot2shot: the test that decides whether LRUD values are worked out
Infers(inshot, splays, calculate_lrud) ==
    calculate_lrud /\ ~(IsSplay(inshot) /\ splays # <<>>)

\* shot2shot: left, right, up, down, or None for all four
Lrud(inshot, splays) ==
    [left |-> Farthest(find_candidate_splays(splays, RMod(RSub(inshot.AZM, RInt(90)), 360),
                                             RInt(0)), hd),
     right |-> Farthest(find_candidate_splays(splays, RMod(RAdd(inshot.AZM, RInt(90)), 360),
                                              RInt(0)), hd),
     up |-> Farthest(find_candidate_vert_splays(splays, 90), vd),
     down |-> Farthest(find_candidate_vert_splays(splays, -90), vd)]
AllNonNegative(p) == \A v \in {p.left, p.right, p.up, p.down} : v[1] >= 0
Passage(inshot, splays, calculate_lrud) ==
    IF Infers(inshot, splays, calculate_lrud) THEN Some(Lrud(inshot, splays)) ELSE None

\* shot2shot: the TO station, '%s.s%03d' for a splay, and _splay_counts after
SplayName(from, count) == <<from, ".", "s">> \o NatDigits(count, 3)
CountsAfterAlways(inshot, counts) == [counts EXCEPT ![inshot.FROM] = @ + 1]
CountsAfter(inshot, counts) ==
    IF HasTo(inshot) THEN counts ELSE [counts EXCEPT ![inshot.FROM] = @ + 1]
ToOf(inshot, counts) ==
    IF HasTo(inshot) THEN <<Get(inshot.TO)>>
    ELSE SplayName(inshot.FROM, CountsAfter(inshot, counts)[inshot.FROM])

\* shot2shot: the Format-A shot returned
Feet(insurvey, v) == IF insurvey.length_units = "m" THEN m2ft(v) ELSE v
NoPassage == Rat(-990, 100)
PassageValue(insurvey, passage, v) ==
    V_Num(IF passage # None THEN Feet(insurvey, v) ELSE NoPassage)
SplayFlags(hide_splays) ==
    IF hide_splays THEN <<Exclude_LENGTH, Exclude_PLOT>> ELSE <<Exclude_LENGTH>>
ConvertedShot(insurvey, inshot, passage, to, hide_splays) ==
    Shot(<< <<K_FROM, V_Str(<<inshot.FROM>>)>>,
            <<K_TO, V_Str(to)>>,
            <<K_LENGTH, V_Num(Feet(insurvey, inshot.LENGTH))>>,
            <<K_BEARING, V_Num(inshot.AZM)>>,
            <<K_INC, V_Num(inshot.INC)>>,
            <<K_LEFT, PassageValue(insurvey, passage, IF passage # None THEN Get(passage).left ELSE RInt(0))>>,
            <<K_UP, PassageValue(insurvey, passage, IF passage # None THEN Get(passage).up ELSE RInt(0))>>,
            <<K_DOWN, PassageValue(insurvey, passage, IF passage # None THEN Get(passage).down ELSE RInt(0))>>,
            <<K_RIGHT, PassageValue(insurvey, passage, IF passage # None THEN Get(passage).right ELSE RInt(0))>>,
            <<K_FLAGS, V_Str(IF IsSplay(inshot) THEN SplayFlags(hide_splays) ELSE <<>>)>>,
            <<K_COMMENTS, IF inshot.COMMENT = None THEN V_None ELSE V_Str(Get(inshot.COMMENT))>> >>,
         RInt(0))

\* shot2shot: the shot returned and _splay_counts after the call, or the
\* exception raised
shot2shot(insurvey, inshot, calculate_lrud, hide_splays, counts, passage) ==
    IF insurvey.units # 360 THEN [err |-> "RuntimeError", shot |-> None, counts |-> counts]
    ELSE IF passage # None /\ ~AllNonNegative(Get(passage))
    THEN [err |-> "AssertionError", shot |-> None, counts |-> counts]
    ELSE [err |-> "",
          shot |-> Some(ConvertedShot(insurvey, inshot, passage, ToOf(inshot, counts),
                                      hide_splays)),
          counts |-> CountsAfter(inshot, counts)]

\* Format-B shots: A to B, B to C, a splay to the left of A to B, a splay up
\* from A (TO ''), and a splay down from B
SampleInShots ==
    { BShot("A", Some("B"), RInt(5), RInt(0), RInt(0), None),
      BShot("B", Some("C"), RInt(6), RInt(90), RInt(0), Some(<<"c">>)),
      BShot("A", None, RInt(2), RInt(270), RInt(0), None),
      BShot("A", Some(""), RInt(1), RInt(0), RInt(90), None),
      BShot("B", None, RInt(4), RInt(0), RInt(-90), None) }

\* TxtFile.read(txtfilename, merge_duplicate_shots=True): a MergingSurvey in
\* metres and degrees with the shots of the file added in order
RECURSIVE InSurvey(_)
InSurvey(shots) ==
    IF shots = <<>>
    THEN [shots |-> <<>>, splays |-> [st \in Stations |-> <<>>], decl |-> RInt(0),
          units |-> 360, length_units |-> "m"]
    ELSE MergingAddShot(InSurvey(SubSeq(shots, 1, Len(shots) - 1)), shots[Len(shots)])
NoSurvey == InSurvey(<<>>)

ConvertIdle ==
    /\ cv_pc = "off"
    /\ cv_args = [exclude_splays |-> FALSE, calculate_lrud |-> FALSE, hide_splays |-> FALSE]
    /\ cv_insurvey = NoSurvey /\ cv_pos = 1 /\ cv_out = <<>>
    /\ cv_counts = [st \in Stations |-> 0]
    /\ cv_used = 0 /\ cv_log = <<>> /\ cv_error = ""

\* pockettopo2compass: `for insurvey in infile`, up to the loop over its shots
CvSurvey(shots) ==
    /\ cv_pc = "idle"
    /\ cv_used + Len(shots) <= MaxInShots
    /\ cv_insurvey' = InSurvey(shots)
    /\ cv_used' = cv_used + Len(shots)
    /\ cv_pos' = 1
    /\ cv_out' = <<>>
    /\ cv_pc' = "loop"
    /\ UNCHANGED <<cv_args, cv_counts, cv_log, cv_error>>

\* one turn of `for inshot in insurvey`
CvConverted(inshot, result) ==
    IF result.err # ""
    THEN /\ cv_pc' = "raised" /\ cv_error' = result.err
         /\ UNCHANGED <<cv_pos, cv_out, cv_counts, cv_log>>
    ELSE /\ cv_out' = Append(cv_out, Get(result.shot))
         /\ cv_counts' = result.counts
         /\ cv_log' = Append(cv_log, [inshot |-> inshot, outshot |-> Get(result.shot),
                                      splays |-> Len(cv_insurvey.splays[inshot.FROM]),
                                      calculate_lrud |-> cv_args.calculate_lrud])
         /\ cv_pos' = cv_pos + 1
         /\ UNCHANGED <<cv_pc, cv_error>>
CvShot ==
    /\ cv_pc = "loop"
    /\ cv_pos <= Len(cv_insurvey.shots)
    /\ IF IsSplay(cv_insurvey.shots[cv_pos]) /\ cv_args.exclude_splays
       THEN /\ cv_pos' = cv_pos + 1
            /\ UNCHANGED <<cv_pc, cv_out, cv_counts, cv_log, cv_error>>
       ELSE CvConverted(cv_insurvey.shots[cv_pos],
                shot2shot(cv_insurvey, cv_insurvey.shots[cv_pos], cv_args.calculate_lrud,
                          cv_args.hide_splays, cv_counts,
                          Passage(cv_insurvey.shots[cv_pos],
                                  cv_insurvey.splays[cv_insurvey.shots[cv_pos].FROM],
                                  cv_args.calculate_lrud)))
    /\ UNCHANGED <<cv_args, cv_insurvey, cv_used>>

\* the survey has no more shots: outfile.add_survey(outsurvey)
CvSurveyDone ==
    /\ cv_pc = "loop"
    /\ cv_pos > Len(cv_insurvey.shots)
    /\ cv_pc' = "idle"
    /\ UNCHANGED <<cv_args, cv_insurvey, cv_pos, cv_out, cv_counts, cv_used, cv_log, cv_error>>

-----------------------------------------------------------------------------
(* davies/compass: CompassProjectParser *)

MaxMakLines == 4

\* str.endswith for one character, and bool(prev)
EndsWith(s, c) == s # <<>> /\ s[Len(s)] = c
Truthy(prev) == prev # None /\ Get(prev) # <<>>

\* int(x) for a float x: towards zero
IntOf(x) == IF x[1] >= 0 THEN x[1] \div x[2] ELSE -((-x[1]) \div x[2])

\* the parser between two lines
MakState(prev, base, linked, err) == [prev |-> prev, base |-> base, linked |-> linked, err |-> err]
MakFail(st, e) == [st EXCEPT !.err = e]

\* parse_linked_file
parse_linked_file(value) == SplitOn(RStripChars(value, {";"}), <<",">>, 1)[1]

\* '@': UTMLocation(*(float(v) for v in value.split(','))), two to six values
UtmDefaults == <<RInt(0), RInt(0), RInt(0), RInt(0), None, RInt(0)>>
UtmArgs(vals) == [i \in 1..6 |-> IF i <= Len(vals) THEN vals[i] ELSE UtmDefaults[i]]
UtmOfArgs(a) == UTMLocation(a[1], a[2], a[3], IntOf(a[4]), a[5], a[6])
MakBaseLocation(st, fs) ==
    IF ~AllFloats(fs, 1..Len(fs)) THEN MakFail(st, "ValueError")
    ELSE IF Len(fs) \notin 2..6 THEN MakFail(st, "TypeError")
    ELSE [st EXCEPT !.base = Some(UtmOfArgs(UtmArgs([i \in 1..Len(fs) |-> fs[i].val])))]

\* '&' and '%': base_location.datum and base_location.convergence
MakDatum(st, value) ==
    IF st.base = None THEN MakFail(st, "AttributeError")
    ELSE [st EXCEPT !.base[1].datum = value]
MakConvergence(st, f) ==
    IF ~f.ok THEN MakFail(st, "ValueError")
    ELSE IF st.base = None THEN MakFail(st, "AttributeError")
    ELSE [st EXCEPT !.base[1].convergence = f.val]

\* '#': a complete entry, or the start of one
MakLinkedFile(st, value) ==
    IF EndsWith(value, ";")
    THEN [st EXCEPT !.linked = Append(@, parse_linked_file(value)), !.prev = None]
    ELSE [st EXCEPT !.prev = Some(value)]

\* `if prev:` — the line goes to the open entry
Continued(prev) == Truthy(prev)
MakContinue(st, line, value) ==
    IF EndsWith(line, ";")
    THEN [st EXCEPT !.linked = Append(@, parse_linked_file(Get(st.prev)
                                                           \o RStripChars(line, {";"}))),
                    !.prev = None]
    ELSE [st EXCEPT !.prev = Some(Get(st.prev) \o value)]

\* the body of the loop, for the stripped line
MakDispatch(st, line, header, value) ==
    IF Continued(st.prev) THEN MakContinue(st, line, value)
    ELSE IF header = "/" THEN st
    ELSE IF header = "@"
    THEN MakBaseLocation(st, FloatsOfWords(SplitOn(RStripChars(value, {";"}), <<",">>, Unlimited)))
    ELSE IF header = "&" THEN MakDatum(st, RStripChars(value, {";"}))
    ELSE IF header = "%" THEN MakConvergence(st, ParseFloat(RStripChars(value, {";"})))
    ELSE IF header = "!" THEN st
    ELSE IF header = "#" THEN MakLinkedFile(st, value)
    ELSE st
MakStripped(st, line) == IF line = <<>> THEN st ELSE MakDispatch(st, line, line[1], Tail(line))
MakStep(st, line) == MakStripped(st, Strip(line))

\* lines of a project file: a linked file on one line, the start of a linked
\* file with fixed stations, a continuation that begins like a datum line, a
\* closing line, a base location, a bare '#', an empty line, and a comment
SampleMakLines ==
    { <<"#", "a", ".", "d", "a", "t", ";", CR, LF>>,
      <<"#", "b", ".", "d", "a", "t", ",", CR, LF>>,
      <<"&", "D", ",", CR, LF>>,
      <<"B", ";", CR, LF>>,
      <<"@", "1", ",", "2", ",", "3", ",", "7", ";", CR, LF>>,
      <<"#", CR, LF>>,
      <<CR, LF>>,
      <<"/", "c", CR, LF>> }

\* name_from_filename, for a file name without directories
name_from_filename(fname) ==
    [i \in 1..Len(SplitOn(fname, <<".">>, 1)[1]) |->
        IF SplitOn(fname, <<".">>, 1)[1][i] = "_" THEN " " ELSE SplitOn(fname, <<".">>, 1)[1][i]]

\* CompassDatParser(linked_file_path).parse(): the DatFile of a linked file
LinkedDatFile(linked_file) == [name |-> name_from_filename(linked_file), filename |-> linked_file]

\* Project.__init__, set_base_location and add_linked_file for every linked file
MakProject(base_location, linked_files) ==
    [name |-> <<"p">>, filename |-> <<"p", ".", "m", "a", "k">>,
     base_location |-> base_location, utm |-> UtmOf(Get(base_location)),
     linked_files |-> [i \in 1..Len(linked_files) |-> LinkedDatFile(linked_files[i])]]

MakIdle ==
    /\ mk_pc = "idle" /\ mk_file = <<>> /\ mk_prev = None /\ mk_base = None
    /\ mk_linked = <<>> /\ mk_project = None /\ mk_error = ""

\* one turn of `for line in makfile`, for the line the file gives next
MakTurn(st) ==
    /\ mk_prev' = st.prev
    /\ mk_base' = st.base
    /\ mk_linked' = st.linked
    /\ mk_error' = st.err
    /\ mk_pc' = IF st.err = "" THEN "loop" ELSE "raised"
    /\ UNCHANGED mk_project
MakLine(line) ==
    /\ mk_pc = "loop"
    /\ Len(mk_file) < MaxMakLines
    /\ mk_file' = Append(mk_file, line)
    /\ MakTurn(MakStep(MakState(mk_prev, mk_base, mk_linked, ""), line))

\* the file has no more lines: the Project is built and returned; p.mak is the
\* project file
MakReturn ==
    /\ mk_pc = "loop"
    /\ IF mk_base = None
       THEN mk_pc' = "raised" /\ mk_error' = "AttributeError" /\ UNCHANGED mk_project
       ELSE mk_pc' = "returned" /\ mk_project' = Some(MakProject(mk_base, mk_linked))
            /\ UNCHANGED mk_error
    /\ UNCHANGED <<mk_file, mk_prev, mk_base, mk_linked>>

-----------------------------------------------------------------------------
(* Specifications *)

InitEvent == EventIdle /\ MergeIdle /\ SurveyIdle /\ RoundTripIdle /\ DatIdle /\ WriteIdle /\ PltIdle /\ LookupIdle /\ FormatIdle /\ ParseIdle /\ TxtIdle /\ ProjectIdle /\ HistIdle /\ ConvertIdle /\ MakIdle

NextEvent ==
    /\ \/ \E o \in Instances, fn \in Listeners : Register(o, fn)
       \/ \E o \in Instances, fn \in Listeners : Unregister(o, fn)
       \/ \E o \in Instances, a \in EventArgs : Invoke(o, a)
       \/ \E e \in Effects : CallListener(e)
       \/ DispatchReturn
    /\ UNCHANGED <<ms_vars, sv_vars, rt_vars, dp_vars, dw_vars, pl_vars, lk_vars, ff_vars, ps_vars, tx_vars, pj_vars, hi_vars, cv_vars, mk_vars>>

SpecEvent == InitEvent /\ [][NextEvent]_vars

\* a MergingSurvey as TxtFile.add_survey leaves it: degrees or grads
InitMerge ==
    /\ MakIdle
    /\ ConvertIdle
    /\ HistIdle
    /\ ProjectIdle
    /\ TxtIdle
    /\ ParseIdle
    /\ FormatIdle
    /\ LookupIdle
    /\ PltIdle
    /\ WriteIdle
    /\ EventIdle
    /\ SurveyIdle
    /\ RoundTripIdle
    /\ DatIdle
    /\ ms_units \in {360, 400}
    /\ ms_decl = Rat(7, 2)
    /\ ms_shots = <<>>
    /\ ms_splays = [st \in Stations |-> <<>>]
    /\ ms_added = <<>>
    /\ ms_prev = <<>>

NextMerge ==
    /\ \E shot \in NewShots : AddShot(shot)
    /\ UNCHANGED <<ev_vars, sv_vars, rt_vars, dp_vars, dw_vars, pl_vars, lk_vars, ff_vars, ps_vars, tx_vars, pj_vars, hi_vars, cv_vars, mk_vars>>

SpecMerge == InitMerge /\ [][NextMerge]_vars

\* a compass.Survey built with one of the sample declinations
InitSurvey ==
    /\ MakIdle
    /\ ConvertIdle
    /\ HistIdle
    /\ ProjectIdle
    /\ TxtIdle
    /\ ParseIdle
    /\ FormatIdle
    /\ LookupIdle
    /\ PltIdle
    /\ WriteIdle
    /\ EventIdle
    /\ MergeIdle
    /\ RoundTripIdle
    /\ DatIdle
    /\ sv_decl \in SampleDeclinations
    /\ sv_shots = <<>>

NextSurvey ==
    /\ \/ \E shot \in SampleShots : AddShotA(shot)
       \/ \E d \in SampleDeclinations : SetDeclination(d)
    /\ UNCHANGED <<ev_vars, ms_vars, rt_vars, dp_vars, dw_vars, pl_vars, lk_vars, ff_vars, ps_vars, tx_vars, pj_vars, hi_vars, cv_vars, mk_vars>>

SpecSurvey == InitSurvey /\ [][NextSurvey]_vars

\* a Survey is built, written out as text, and the text is read back
InitRoundTrip ==
    /\ MakIdle
    /\ ConvertIdle
    /\ HistIdle
    /\ ProjectIdle
    /\ TxtIdle
    /\ ParseIdle
    /\ FormatIdle
    /\ LookupIdle
    /\ PltIdle
    /\ WriteIdle
    /\ EventIdle
    /\ MergeIdle
    /\ SurveyIdle
    /\ DatIdle
    /\ rt_pc = "built"
    /\ rt_survey \in {Some(sv) : sv \in SampleRtSurveys}
    /\ rt_text = <<>>
    /\ rt_parsed = None

NextRoundTrip ==
    /\ \/ \E shot \in SampleRtShots : RtAddShot(shot)
       \/ RtSerialize
       \/ RtParse
    /\ UNCHANGED <<ev_vars, ms_vars, sv_vars, dp_vars, dw_vars, pl_vars, lk_vars, ff_vars, ps_vars, tx_vars, pj_vars, hi_vars, cv_vars, mk_vars>>

SpecRoundTrip == InitRoundTrip /\ [][NextRoundTrip]_vars

\* CompassDatParser.parse runs once over a data file
InitDat ==
    /\ MakIdle
    /\ ConvertIdle
    /\ HistIdle
    /\ ProjectIdle
    /\ TxtIdle
    /\ ParseIdle
    /\ FormatIdle
    /\ LookupIdle
    /\ PltIdle
    /\ WriteIdle
    /\ EventIdle
    /\ MergeIdle
    /\ SurveyIdle
    /\ RoundTripIdle
    /\ dp_pc = "closed"
    /\ dp_contents \in SampleFiles
    /\ dp_strs = <<>>
    /\ dp_surveys = <<>>
    /\ dp_result = None
    /\ dp_error = ""

NextDat ==
    /\ \/ DatOpen
       \/ DatBlock
       \/ DatReturn
    /\ UNCHANGED <<ev_vars, ms_vars, sv_vars, rt_vars, dw_vars, pl_vars, lk_vars, ff_vars, ps_vars, tx_vars, pj_vars, hi_vars, cv_vars, mk_vars>>

SpecDat == InitDat /\ [][NextDat]_vars

\* a DatFile is filled, written out, and the file is read back
InitFraming ==
    /\ MakIdle
    /\ ConvertIdle
    /\ HistIdle
    /\ ProjectIdle
    /\ TxtIdle
    /\ ParseIdle
    /\ FormatIdle
    /\ LookupIdle
    /\ PltIdle
    /\ EventIdle
    /\ MergeIdle
    /\ SurveyIdle
    /\ RoundTripIdle
    /\ dp_pc = "unwritten"
    /\ dp_contents = <<>>
    /\ dp_strs = <<>>
    /\ dp_surveys = <<>>
    /\ dp_result = None
    /\ dp_error = ""
    /\ dw_surveys = <<>>

NextFraming ==
    /\ \/ \E survey \in SampleWrittenSurveys : DwAddSurvey(survey)
       \/ DwWrite
       \/ DatOpen /\ UNCHANGED dw_surveys
       \/ DatBlock /\ UNCHANGED dw_surveys
       \/ DatReturn /\ UNCHANGED dw_surveys
    /\ UNCHANGED <<ev_vars, ms_vars, sv_vars, rt_vars, pl_vars, lk_vars, ff_vars, ps_vars, tx_vars, pj_vars, hi_vars, cv_vars, mk_vars>>

SpecFraming == InitFraming /\ [][NextFraming]_vars

InitPlt ==
    /\ MakIdle
    /\ ConvertIdle
    /\ HistIdle
    /\ ProjectIdle
    /\ TxtIdle
    /\ ParseIdle
    /\ FormatIdle
    /\ LookupIdle
    /\ pl_pc = "closed" /\ pl_strict = FALSE /\ pl_file = <<>>
    /\ pl_plt = None /\ pl_segment = None /\ pl_result = None /\ pl_error = ""
    /\ EventIdle /\ MergeIdle /\ SurveyIdle /\ RoundTripIdle /\ DatIdle /\ WriteIdle
NextPlt ==
    /\ \/ \E strict_mode \in BOOLEAN : PltOpen(strict_mode)
       \/ \E line \in SampleLines : PltLine(line, MaxPltLines)
       \/ PltReturn
    /\ UNCHANGED <<ev_vars, ms_vars, sv_vars, rt_vars, dp_vars, dw_vars, lk_vars, ff_vars, ps_vars, tx_vars, pj_vars, hi_vars, cv_vars, mk_vars>>
SpecPlt == InitPlt /\ [][NextPlt]_vars

NextSegments ==
    /\ \/ \E strict_mode \in BOOLEAN : PltOpen(strict_mode)
       \/ \E line \in SegmentLines : PltLine(line, MaxSegmentLines)
       \/ PltReturn
    /\ UNCHANGED <<ev_vars, ms_vars, sv_vars, rt_vars, dp_vars, dw_vars, lk_vars, ff_vars, ps_vars, tx_vars, pj_vars, hi_vars, cv_vars, mk_vars>>
SpecSegments == InitPlt /\ [][NextSegments]_vars

InitLookup ==
    /\ MakIdle
    /\ ConvertIdle
    /\ HistIdle
    /\ ProjectIdle
    /\ TxtIdle
    /\ ParseIdle
    /\ FormatIdle
    /\ LookupIdle
    /\ EventIdle /\ MergeIdle /\ SurveyIdle /\ RoundTripIdle /\ DatIdle /\ WriteIdle /\ PltIdle
NextLookup ==
    /\ \/ \E kind \in Containers : LkNew(kind)
       \/ \E name \in ItemNames : LkAdd(name)
       \/ \E name \in ItemNames \cup {"z"} : LkGetItem(StrItem(name))
       \/ \E i \in 1..Len(lk_items) : LkGetItem(ObjItem(lk_items[i]))
    /\ UNCHANGED <<ev_vars, ms_vars, sv_vars, rt_vars, dp_vars, dw_vars, pl_vars, ff_vars, ps_vars, tx_vars, pj_vars, hi_vars, cv_vars, mk_vars>>
SpecLookup == InitLookup /\ [][NextLookup]_vars

InitFormat ==
    /\ MakIdle
    /\ ConvertIdle
    /\ HistIdle
    /\ ProjectIdle
    /\ TxtIdle
    /\ ParseIdle
    /\ FormatIdle
    /\ EventIdle /\ MergeIdle /\ SurveyIdle /\ RoundTripIdle /\ DatIdle /\ WriteIdle /\ PltIdle
    /\ LookupIdle
NextFormat ==
    /\ \/ \E fmt \in SampleFormats : FfAssign(fmt)
       \/ FfReassign
    /\ UNCHANGED <<ev_vars, ms_vars, sv_vars, rt_vars, dp_vars, dw_vars, pl_vars, lk_vars, ps_vars, tx_vars, pj_vars, hi_vars, cv_vars, mk_vars>>
SpecFormat == InitFormat /\ [][NextFormat]_vars

InitParse ==
    /\ MakIdle
    /\ ConvertIdle
    /\ HistIdle
    /\ ProjectIdle
    /\ TxtIdle
    /\ ps_pc = "new" /\ ps_in = None /\ ps_text = <<>> /\ ps_out = None
    /\ EventIdle /\ MergeIdle /\ SurveyIdle /\ RoundTripIdle /\ DatIdle /\ WriteIdle /\ PltIdle
    /\ LookupIdle /\ FormatIdle
NextParse ==
    /\ \/ \E in \in SampleLayouts : PsNew(in)
       \/ PsParse
    /\ UNCHANGED <<ev_vars, ms_vars, sv_vars, rt_vars, dp_vars, dw_vars, pl_vars, lk_vars, ff_vars, tx_vars, pj_vars, hi_vars, cv_vars, mk_vars>>
SpecParse == InitParse /\ [][NextParse]_vars

InitTxt ==
    /\ MakIdle
    /\ ConvertIdle
    /\ HistIdle
    /\ ProjectIdle
    /\ tx_pc = "closed" /\ tx_merge = FALSE /\ tx_lines = <<>> /\ tx_txtobj = None
    /\ tx_result = None /\ tx_error = ""
    /\ EventIdle /\ MergeIdle /\ SurveyIdle /\ RoundTripIdle /\ DatIdle /\ WriteIdle /\ PltIdle
    /\ LookupIdle /\ FormatIdle /\ ParseIdle
NextTxt ==
    /\ \/ \E lines \in SampleTxtFiles, merge \in BOOLEAN : TxOpen(lines, merge)
       \/ TxHeader
       \/ TxData
       \/ TxReturn
    /\ UNCHANGED <<ev_vars, ms_vars, sv_vars, rt_vars, dp_vars, dw_vars, pl_vars, lk_vars, ff_vars, ps_vars, pj_vars, hi_vars, cv_vars, mk_vars>>
SpecTxt == InitTxt /\ [][NextTxt]_vars

InitProject ==
    /\ MakIdle
    /\ ConvertIdle
    /\ HistIdle
    /\ ProjectIdle
    /\ EventIdle /\ MergeIdle /\ SurveyIdle /\ RoundTripIdle /\ DatIdle /\ WriteIdle /\ PltIdle
    /\ LookupIdle /\ FormatIdle /\ ParseIdle /\ TxtIdle
NextProject ==
    /\ \/ \E location \in SampleLocations : SetBaseLocation(location)
       \/ \E datfile \in SampleDatFiles, station \in SampleStations,
             location \in {None} \cup {Some(l) : l \in SampleLocations} :
               AddLinkedStation(datfile, station, location)
    /\ UNCHANGED <<ev_vars, ms_vars, sv_vars, rt_vars, dp_vars, dw_vars, pl_vars, lk_vars, ff_vars, ps_vars, tx_vars, hi_vars, cv_vars, mk_vars>>
SpecProject == InitProject /\ [][NextProject]_vars

InitHist ==
    /\ MakIdle
    /\ ConvertIdle
    /\ hi_pc = "loop" /\ hi_shots = <<>> /\ hi_histogram = EmptyHistogram
    /\ hi_n = 0 /\ hi_high_n = 0 /\ hi_error = ""
    /\ EventIdle /\ MergeIdle /\ SurveyIdle /\ RoundTripIdle /\ DatIdle /\ WriteIdle /\ PltIdle
    /\ LookupIdle /\ FormatIdle /\ ParseIdle /\ TxtIdle /\ ProjectIdle
NextHist ==
    /\ \/ \E shot \in SampleIncShots : HistShot(shot)
       \/ HistSummary
    /\ UNCHANGED <<ev_vars, ms_vars, sv_vars, rt_vars, dp_vars, dw_vars, pl_vars, lk_vars, ff_vars, ps_vars, tx_vars, pj_vars, cv_vars, mk_vars>>
SpecHist == InitHist /\ [][NextHist]_vars

InitConvert ==
    /\ MakIdle
    /\ cv_pc = "idle"
    /\ cv_args \in [exclude_splays : BOOLEAN, calculate_lrud : BOOLEAN, hide_splays : BOOLEAN]
    /\ cv_insurvey = NoSurvey /\ cv_pos = 1 /\ cv_out = <<>>
    /\ cv_counts = [st \in Stations |-> 0]
    /\ cv_used = 0 /\ cv_log = <<>> /\ cv_error = ""
    /\ EventIdle /\ MergeIdle /\ SurveyIdle /\ RoundTripIdle /\ DatIdle /\ WriteIdle /\ PltIdle
    /\ LookupIdle /\ FormatIdle /\ ParseIdle /\ TxtIdle /\ ProjectIdle /\ HistIdle
NextConvert ==
    /\ \/ \E n \in 1..MaxInShots : \E shots \in [1..n -> SampleInShots] : CvSurvey(shots)
       \/ CvShot
       \/ CvSurveyDone
    /\ UNCHANGED <<ev_vars, ms_vars, sv_vars, rt_vars, dp_vars, dw_vars, pl_vars, lk_vars, ff_vars, ps_vars, tx_vars, pj_vars, hi_vars, mk_vars>>
SpecConvert == InitConvert /\ [][NextConvert]_vars

InitMak ==
    /\ mk_pc = "loop" /\ mk_file = <<>> /\ mk_prev = None /\ mk_base = None
    /\ mk_linked = <<>> /\ mk_project = None /\ mk_error = ""
    /\ EventIdle /\ MergeIdle /\ SurveyIdle /\ RoundTripIdle /\ DatIdle /\ WriteIdle /\ PltIdle
    /\ LookupIdle /\ FormatIdle /\ ParseIdle /\ TxtIdle /\ ProjectIdle /\ HistIdle /\ ConvertIdle
NextMak ==
    /\ \/ \E line \in SampleMakLines : MakLine(line)
       \/ MakReturn
    /\ UNCHANGED <<ev_vars, ms_vars, sv_vars, rt_vars, dp_vars, dw_vars, pl_vars, lk_vars, ff_vars, ps_vars, tx_vars, pj_vars, hi_vars, cv_vars>>
SpecMak == InitMak /\ [][NextMak]_vars

-----------------------------------------------------------------------------
(* Properties of the event utility *)

\* the calls an invocation owes: one per registration at its start, in order
OwedCalls(d) == [i \in 1..Len(d.start) |-> [fn |-> d.start[i], args |-> d.args]]

\* C4: an invocation that returns has called every listener registered when it
\* started, once per registration, in registration order, each with the
\* invocation's arguments; while it runs (or when a listener raised) the calls
\* made so far are the first pos-1 of those, whatever the listeners did to the
\* listener list in between.
C4_DispatchOrder ==
    /\ ev_disp.status = "returned" => ev_disp.calls = OwedCalls(ev_disp)
    /\ ev_disp.status \in {"running", "raised"} =>
          /\ ev_disp.pos - 1 <= Len(ev_disp.start)
          /\ ev_disp.calls = SubSeq(OwedCalls(ev_disp), 1, ev_disp.pos - 1)

\* a dispatch over two or more listeners returned, one of which unregistered itself
C4_Witness ==
    /\ ev_disp.status = "returned"
    /\ ev_disp.selfun
    /\ Len(ev_disp.start) >= 2
    /\ Len(ev_fns[ev_disp.inst]) < Len(ev_disp.start)

\* the other instances
Others(o) == Instances \ {o}
Untouched(os) == \A p \in os : ev_fns'[p] = ev_fns[p]
Called(d) == {d.calls[i].fn : i \in 1..Len(d.calls)}

\* C14: each instance has its own listener list. Registering or unregistering
\* on one instance works on the list that instance already had and leaves the
\* other instance's list alone; invoking on one instance changes no list at
\* the start, calls only listeners taken from that instance's list, and what
\* the listeners do to the list while it runs leaves the other instance alone.
C14_PerInstance ==
    [][/\ \A o \in Instances, fn \in Listeners :
            Register(o, fn) => ev_fns'[o] = Append(ev_fns[o], fn) /\ Untouched(Others(o))
       /\ \A o \in Instances, fn \in Listeners :
            Unregister(o, fn) =>
               /\ Untouched(Others(o))
               /\ IF \E i \in 1..Len(ev_fns[o]) : ev_fns[o][i] = fn
                  THEN Len(ev_fns'[o]) = Len(ev_fns[o]) - 1
                  ELSE ev_fns'[o] = ev_fns[o]
       /\ \A o \in Instances, a \in EventArgs :
            Invoke(o, a) => ev_fns' = ev_fns /\ ev_disp'.snap = ev_fns[o]
       /\ \A e \in Effects :
            CallListener(e) =>
               /\ Untouched(Others(ev_disp.inst))
               /\ Called(ev_disp') \subseteq {ev_disp.start[i] : i \in 1..Len(ev_disp.start)}]_vars
\* the two instances hold different listeners and an invocation on one of them
\* has returned
C14_Witness ==
    /\ ev_fns["o1"] = <<"f">> /\ ev_fns["o2"] = <<"g">>
    /\ ev_disp.status = "returned" /\ ev_disp.inst = "o1" /\ Called(ev_disp) = {"f"}

FirstAt(fns, fn) == Least({i \in 1..Len(fns) : fns[i] = fn})
Without(fns, k) == SubSeq(fns, 1, k - 1) \o SubSeq(fns, k + 1, Len(fns))

\* C15: unregistering a listener, from outside or from a listener that is being
\* called, takes out its earliest entry only, so that later duplicates and all
\* other listeners stay in their order; unregistering a listener that is not
\* in the list is an error and leaves the list as it was.
C15_Unregister ==
    [][/\ \A o \in Instances, fn \in Listeners :
            Unregister(o, fn) =>
               IF FirstAt(ev_fns[o], fn) = 0
               THEN ev_result' = "ValueError" /\ ev_fns' = ev_fns
               ELSE ev_result' = "ok"
                    /\ ev_fns'[o] = Without(ev_fns[o], FirstAt(ev_fns[o], fn))
       /\ \A e \in Effects :
            CallListener(e) /\ e.kind = "unregister" =>
               IF FirstAt(ev_fns[ev_disp.inst], e.fn) = 0
               THEN ev_disp'.status = "raised" /\ ev_fns' = ev_fns
               ELSE ev_fns'[ev_disp.inst]
                      = Without(ev_fns[ev_disp.inst], FirstAt(ev_fns[ev_disp.inst], e.fn))]_vars
\* a listener registered twice lost its first entry during an invocation, after
\* an unregister on the other, empty, instance had failed
C15_Witness ==
    /\ ev_result = "ValueError"
    /\ ev_disp.status = "returned" /\ ev_disp.start = <<"f", "g", "f">>
    /\ ev_fns[ev_disp.inst] = <<"g", "f">>

\* the number of entries a listener has in a list
Entries(fns, fn) == Cardinality({i \in 1..Len(fns) : fns[i] = fn})

\* C29: an invocation calls the listeners of the list as it was when the
\* invocation started. Each turn calls the next listener of that list,
\* whatever was registered or unregistered meanwhile: a registration made by a
\* listener adds an entry to the instance's list and none to the listeners
\* this invocation calls, an unregistration made by a listener takes an entry
\* from the instance's list and none from the listeners this invocation
\* calls; the invocation returns when it has called as many listeners as the
\* list had at the start; and the next invocation starts from the instance's
\* list as it is then
C29_Snapshot ==
    [][/\ \A e \in Effects :
            CallListener(e) =>
               /\ ev_disp'.start = ev_disp.start
               /\ ev_disp.pos <= Len(ev_disp.start)
               /\ ev_disp'.calls = Append(ev_disp.calls, [fn |-> ev_disp.start[ev_disp.pos],
                                                          args |-> ev_disp.args])
               /\ ev_disp'.status = "running" /\ e.kind = "register" =>
                     Entries(ev_fns'[ev_disp.inst], e.fn)
                       = Entries(ev_fns[ev_disp.inst], e.fn) + 1
               /\ ev_disp'.status = "running" /\ e.kind = "unregister" =>
                     Entries(ev_fns'[ev_disp.inst], e.fn)
                       = Entries(ev_fns[ev_disp.inst], e.fn) - 1
       /\ DispatchReturn => Len(ev_disp.calls) = Len(ev_disp.start)
       /\ \A o \in Instances, a \in EventArgs :
            Invoke(o, a) => ev_disp'.start = ev_fns[o] /\ ev_disp'.calls = <<>>]_vars
\* an invocation has returned after calling a listener that an earlier
\* listener had unregistered, and a later invocation would not call it
C29_Witness ==
    /\ ev_disp.status = "returned" /\ ~ev_disp.selfun
    /\ Len(ev_disp.calls) = Len(ev_disp.start)
    /\ \E i \in 2..Len(ev_disp.calls) :
          Entries(ev_fns[ev_disp.inst], ev_disp.calls[i].fn) = 0

-----------------------------------------------------------------------------
(* Properties of the duplicate-merging survey *)

Last(s) == s[Len(s)]
SamePair(a, b) == a.FROM = b.FROM /\ a.TO = b.TO
ReversedPair(a, b) == Some(a.FROM) = b.TO /\ a.TO = Some(b.FROM)
NonSplay(a) == a.TO # None /\ a.TO # Some("")

\* the length of the longest run of same-pair shots that ends the sequence
RECURSIVE TrailingRunLen(_)
TrailingRunLen(s) ==
    IF Len(s) <= 1 THEN Len(s)
    ELSE IF SamePair(s[Len(s) - 1], s[Len(s)])
         THEN 1 + TrailingRunLen(SubSeq(s, 1, Len(s) - 1))
         ELSE 1

TrailingRun(s) == SubSeq(s, Len(s) - TrailingRunLen(s) + 1, Len(s))
BeforeRun(s) == SubSeq(s, 1, Len(s) - TrailingRunLen(s))

\* the shots a fresh survey stores after the calls add_shot(s[1]), add_shot(s[2]), ...
RECURSIVE StoredAfter(_, _)
StoredAfter(sv, s) ==
    IF s = <<>> THEN sv.shots ELSE StoredAfter(MergingAddShot(sv, s[1]), Tail(s))
FreshSurvey ==
    [shots |-> <<>>, splays |-> [st \in Stations |-> <<>>], decl |-> ms_decl,
     units |-> ms_units]

MeanOf(vals) == RDivInt(RSum(vals), Len(vals))

\* ' '.join(comments).strip(), None when empty
RECURSIVE SpaceJoined(_)
SpaceJoined(run) ==
    IF Len(run) = 1 THEN OrEmpty(run[1].COMMENT)
    ELSE SpaceJoined(SubSeq(run, 1, Len(run) - 1)) \o <<" ">> \o OrEmpty(Last(run).COMMENT)
JoinedComment(run) ==
    IF Strip(SpaceJoined(run)) = <<>> THEN None ELSE Some(Strip(SpaceJoined(run)))

\* the first comment as given; each later one appended after one space to what
\* is kept so far and the result trimmed, None when empty
RECURSIVE FoldedComment(_)
FoldedComment(run) ==
    IF Len(run) = 1 THEN run[1].COMMENT
    ELSE LET t == Strip(OrEmpty(FoldedComment(SubSeq(run, 1, Len(run) - 1)))
                        \o <<" ">> \o OrEmpty(Last(run).COMMENT))
         IN  IF t = <<>> THEN None ELSE Some(t)

RunMeansHold(run, stored) ==
    /\ stored.dupe_count = Len(run)
    /\ stored.LENGTH = MeanOf([i \in 1..Len(run) |-> run[i].LENGTH])
    /\ stored.AZM = MeanOf([i \in 1..Len(run) |-> run[i].AZM])
    /\ stored.INC = MeanOf([i \in 1..Len(run) |-> run[i].INC])

\* C2 as stated: any n >= 1 consecutive non-splay shots with the same (FROM, TO)
\* leave exactly one stored shot for the run, with dupe_count n, the means of
\* the n values, and the space-joined trimmed comments.
C2_AsStated ==
    (ms_added # <<>> /\ NonSplay(Last(ms_added))) =>
        LET run == TrailingRun(ms_added)
        IN  /\ Len(ms_shots) = Len(StoredAfter(FreshSurvey, BeforeRun(ms_added))) + 1
            /\ RunMeansHold(run, Last(ms_shots))
            /\ Last(ms_shots).COMMENT = JoinedComment(run)

\* the run's first shot is not itself merged: nothing precedes it, or the shot
\* added just before it is a splay or joins another pair of stations
RunStartsAfresh(s) ==
    \/ BeforeRun(s) = <<>>
    \/ ~NonSplay(Last(BeforeRun(s)))
    \/ ~ReversedPair(Last(s), Last(BeforeRun(s)))

\* C2 (amended): n >= 1 consecutive non-splay shots with the same (FROM, TO),
\* the first of which is not merged into a preceding reversed-pair shot, leave
\* exactly one stored shot for the run, with dupe_count n, FROM and TO of the
\* run, LENGTH, AZM and INC the arithmetic means of the n values, and the
\* comment folded pairwise (first comment as given, then trim(kept + ' ' + new),
\* absent when that is empty).
C2_ForwardMerge ==
    (ms_added # <<>> /\ NonSplay(Last(ms_added)) /\ RunStartsAfresh(ms_added)) =>
        LET run == TrailingRun(ms_added)
        IN  /\ Len(ms_shots) = Len(StoredAfter(FreshSurvey, BeforeRun(ms_added))) + 1
            /\ RunMeansHold(run, Last(ms_shots))
            /\ SamePair(Last(ms_shots), run[1])
            /\ Last(ms_shots).COMMENT = FoldedComment(run)

\* three forward shots with differing readings were merged into one stored shot
C2_Witness ==
    /\ Len(ms_added) = 3
    /\ NonSplay(ms_added[3])
    /\ TrailingRunLen(ms_added) = 3
    /\ ms_added[1].LENGTH # ms_added[2].LENGTH
    /\ ms_added[3].AZM # ms_added[2].AZM
    /\ Len(ms_shots) = 1
    /\ ms_shots[1].dupe_count = 3
    /\ ms_shots[1].COMMENT # None

\* the last add_shot was a non-splay B->A on a survey whose last stored shot was
\* a non-splay A->B
BacksightAdded ==
    /\ ms_added # <<>>
    /\ ms_prev # <<>>
    /\ NonSplay(Last(ms_prev))
    /\ NonSplay(Last(ms_added))
    /\ ReversedPair(Last(ms_added), Last(ms_prev))

\* what the claim says a backsight leaves: no new shot, dupe_count + 1, the means
\* moved by LENGTH as is, (AZM + units/2) mod units and -INC, FROM and TO kept
BacksightMerged ==
    LET p == Last(ms_prev)
        new == Last(ms_added)
        k == p.dupe_count
        got == Last(ms_shots)
        half == Rat(ms_units, 2)
        inv == RMod(RAdd(new.AZM, half), ms_units)
        mean(old, v) == RDivInt(RAdd(RMul(old, RInt(k)), v), k + 1)
    IN  /\ Len(ms_shots) = Len(ms_prev)
        /\ got.dupe_count = k + 1
        /\ got.LENGTH = mean(p.LENGTH, new.LENGTH)
        /\ got.AZM = mean(p.AZM, inv)
        /\ got.INC = mean(p.INC, RNeg(new.INC))
        /\ got.FROM = p.FROM
        /\ got.TO = p.TO

\* C9 as stated: for any stations A and B, also A = B
C9_AsStated == BacksightAdded => BacksightMerged

\* C9 (amended): when the last stored shot is a non-splay shot from A to B with
\* A # B, adding a non-splay shot from B to A appends nothing, increments
\* dupe_count and updates the running means with LENGTH as is, AZM inverted as
\* (AZM + angle_units/2) mod angle_units and INC negated; FROM=A, TO=B are kept.
C9_BacksightMerge ==
    (BacksightAdded /\ Some(Last(ms_prev).FROM) # Last(ms_prev).TO) => BacksightMerged

\* a backsight whose inverted azimuth wrapped around was merged into a forward shot
C9_Witness ==
    /\ BacksightAdded
    /\ Some(Last(ms_prev).FROM) # Last(ms_prev).TO
    /\ RAdd(Last(ms_added).AZM, Rat(ms_units, 2))[1] >= ms_units * RAdd(Last(ms_added).AZM, Rat(ms_units, 2))[2]
    /\ Last(ms_shots).dupe_count = 2

\* the new shot cannot be merged into the last stored one
NoMergeCase ==
    \/ ms_prev = <<>>
    \/ ~NonSplay(Last(ms_added))
    \/ ~NonSplay(Last(ms_prev))
    \/ /\ ~SamePair(Last(ms_added), Last(ms_prev))
       /\ ~ReversedPair(Last(ms_added), Last(ms_prev))

\* C10: add_shot looks at the last stored shot only: every stored shot before
\* it is left as it was, and when the survey is empty, or the new shot is a
\* splay, or the last stored shot is a splay, or the new pair differs from the
\* last stored pair in both orders, the new shot is appended as a shot of its
\* own (dupe_count 1, its own readings), whatever the earlier shots are.
C10_LookBackOne ==
    ms_added # <<>> =>
        /\ SubSeq(ms_shots, 1, Len(ms_prev) - 1) = SubSeq(ms_prev, 1, Len(ms_prev) - 1)
        /\ NoMergeCase =>
              /\ Len(ms_shots) = Len(ms_prev) + 1
              /\ SubSeq(ms_shots, 1, Len(ms_prev)) = ms_prev
              /\ Last(ms_shots) = [Last(ms_added) EXCEPT !.declination = ms_decl]

\* A-B, splay, A-B: three shots stored although the first and third share a pair
C10_Witness ==
    /\ Len(ms_added) = 3
    /\ NonSplay(ms_added[1])
    /\ ~NonSplay(ms_added[2])
    /\ SamePair(ms_added[1], ms_added[3])
    /\ Len(ms_shots) = 3

\* the sum of dupe_count over the stored shots
DupeTotal == SumInts([i \in 1..Len(ms_shots) |-> ms_shots[i].dupe_count])
SamePairEitherWay(a, b) == SamePair(a, b) \/ ReversedPair(a, b)

\* C28: after k calls of add_shot with fresh shots the dupe_count of the
\* stored shots adds up to k; a call never leaves fewer stored shots than
\* before; a stored splay has dupe_count 1; and two adjacent stored non-splay
\* shots never join the same two stations, in either order
C28_MergeAccounting ==
    /\ DupeTotal = Len(ms_added)
    /\ Len(ms_shots) >= Len(ms_prev)
    /\ \A i \in 1..Len(ms_shots) : ~NonSplay(ms_shots[i]) => ms_shots[i].dupe_count = 1
    /\ \A i \in 1..(Len(ms_shots) - 1) :
          NonSplay(ms_shots[i]) /\ NonSplay(ms_shots[i + 1])
              => ~SamePairEitherWay(ms_shots[i], ms_shots[i + 1])
C28_Witness ==
    /\ Len(ms_added) = 3 /\ Len(ms_shots) = 2
    /\ NonSplay(ms_shots[1]) /\ ms_shots[1].dupe_count = 2
    /\ ~NonSplay(ms_shots[2])

-----------------------------------------------------------------------------
(* Properties of the Format-A shot and survey *)

\* the shot's FLAGS text holds the character c
HasFlag(shot, c) ==
    \E i \in 1..Len(shot.items) :
        /\ shot.items[i][1] = K_FLAGS
        /\ \E j \in 1..Len(shot.items[i][2].s) : shot.items[i][2].s[j] = c
Flagged(shot) == HasFlag(shot, "L") \/ HasFlag(shot, "X")

\* the value stored under a key, V_None when there is none
Field(shot, key) ==
    IF \E i \in 1..Len(shot.items) : shot.items[i][1] = key
    THEN (CHOOSE it \in {shot.items[i] : i \in 1..Len(shot.items)} : it[1] = key)[2]
    ELSE V_None

\* the sum of LENGTH over the shots at the positions idx, counted from the end
RECURSIVE TotalOver(_, _, _)
TotalOver(shots, idx, k) ==
    IF k = 0 THEN RInt(0)
    ELSE IF k \in idx
         THEN RAdd(TotalOver(shots, idx, k - 1), NumOf(Field(shots[k], K_LENGTH)))
         ELSE TotalOver(shots, idx, k - 1)
Measured(shots, idx) == \A k \in idx : Field(shots[k], K_LENGTH).t = "num"

C6_DeclinationStamped ==
    [][/\ \A i \in 1..Len(sv_shots) :
             /\ i <= Len(sv_shots')
             /\ sv_shots'[i].declination = sv_shots[i].declination
             /\ Azm(sv_shots'[i]) = Azm(sv_shots[i])
       /\ Len(sv_shots') = Len(sv_shots) + 1 =>
             sv_shots'[Len(sv_shots')].declination = sv_decl]_vars

\* a shot added before a change of declination keeps the old value, one added
\* after it has the new one
C6_Witness ==
    /\ Len(sv_shots) = 2
    /\ sv_shots[1].declination # sv_shots[2].declination
    /\ sv_shots[2].declination = sv_decl
    /\ Field(sv_shots[1], K_BEARING).t = "num"
    /\ Azm(sv_shots[1]) # V_Num(RAdd(NumOf(Field(sv_shots[1], K_BEARING)), sv_decl))

\* (AZM2 + 180) mod 360
Turned(azm2) == RMod(RAdd(azm2, RInt(180)), 360)

\* C7: the corrected azimuth is absent if BEARING and AZM2 are both absent,
\* BEARING + declination if only BEARING is present, ((AZM2+180) mod 360) +
\* declination if only AZM2 is present, else (BEARING + ((AZM2+180) mod 360))/2
\* + declination; the corrected inclination is absent if INC and INC2 are both
\* absent, INC if only INC is present, -INC2 if only INC2 is present, else
\* (INC - INC2)/2.
C7_CorrectedReadings ==
    \A i \in 1..Len(sv_shots) :
        LET shot == sv_shots[i]
            b == Field(shot, K_BEARING)
            a == Field(shot, K_AZM2)
            i1 == Field(shot, K_INC)
            i2 == Field(shot, K_INC2)
            dec == shot.declination
        IN  /\ (b.t = "none" /\ a.t = "none") => Azm(shot) = V_None
            /\ (b.t = "num" /\ a.t = "none") =>
                  Azm(shot) = V_Num(RAdd(NumOf(b), dec))
            /\ (b.t = "none" /\ a.t = "num") =>
                  Azm(shot) = V_Num(RAdd(Turned(NumOf(a)), dec))
            /\ (b.t = "num" /\ a.t = "num") =>
                  Azm(shot) = V_Num(RAdd(RDivInt(RAdd(NumOf(b), Turned(NumOf(a))), 2), dec))
            /\ (i1.t = "none" /\ i2.t = "none") => Inc(shot) = V_None
            /\ (i1.t = "num" /\ i2.t = "none") => Inc(shot) = i1
            /\ (i1.t = "none" /\ i2.t = "num") => Inc(shot) = V_Num(RNeg(NumOf(i2)))
            /\ (i1.t = "num" /\ i2.t = "num") =>
                  Inc(shot) = V_Num(RDivInt(RSub(NumOf(i1), NumOf(i2)), 2))

\* declination 8.5, BEARING 7.0, AZM2 189.0, INC -4, INC2 3.5 give 16.5 and -3.75
C7_Witness ==
    \E i \in 1..Len(sv_shots) :
        /\ sv_shots[i].declination = Rat(17, 2)
        /\ Field(sv_shots[i], K_BEARING) = V_Num(RInt(7))
        /\ Field(sv_shots[i], K_AZM2) = V_Num(RInt(189))
        /\ Field(sv_shots[i], K_INC) = V_Num(RInt(-4))
        /\ Field(sv_shots[i], K_INC2) = V_Num(Rat(7, 2))
        /\ Azm(sv_shots[i]) = V_Num(Rat(33, 2))
        /\ Inc(sv_shots[i]) = V_Num(Rat(-15, 4))

\* C8: for every shot and flag set, is_excluded is true exactly when the flags
\* contain 'L' or 'X', and is_included is the negation of is_excluded.
C8_Inclusion ==
    \A i \in 1..Len(sv_shots) :
        /\ IsExcluded(sv_shots[i]) <=> Flagged(sv_shots[i])
        /\ IsIncluded(sv_shots[i]) <=> ~IsExcluded(sv_shots[i])

\* shots with no FLAGS item, with 'X' alone, and with 'L' among other characters
C8_Witness ==
    /\ Len(sv_shots) = 2
    /\ \E i \in 1..2 : ~HasKey(sv_shots[i], K_FLAGS) /\ IsIncluded(sv_shots[i])
    /\ \E i \in 1..2 : HasFlag(sv_shots[i], "Q") /\ IsExcluded(sv_shots[i])

-----------------------------------------------------------------------------
(* Properties of writing a survey out and reading it back *)

ReadingKeys == {K_LENGTH, K_BEARING, K_INC, K_AZM2, K_INC2}
PassageKeys == {K_LEFT, K_RIGHT, K_UP, K_DOWN}
StationKeys == {K_FROM, K_TO}

\* the decimal places a field is written with
Places(k) == IF k = K_LENGTH THEN 3 ELSE 2

\* x as a number of that many decimal places
Rounded(x, places) ==
    Rat((IF x[1] < 0 THEN -1 ELSE 1) * RoundScaled(x, places), Pow10(places))

\* a field that came back: a number at the output's precision, anything else
\* (absent, infinite, a station name) as it was
CameBack(k, was, now) ==
    IF was.t = "num" THEN now = V_Num(Rounded(NumOf(was), Places(k)))
    ELSE now = was

FlagChars(shot) ==
    LET f == TextOrEmpty(ShotGet(shot, K_FLAGS)) IN {f[i] : i \in 1..Len(f)}

HeaderKeys(sv) == {sv.shot_header[i] : i \in 1..Len(sv.shot_header)}

\* the survey is one the written form can carry: a recorded header, a date,
\* a shot, and passage dimensions that are measured or open
Writable(sv) ==
    /\ sv.shot_header # <<>>
    /\ sv.date # None
    /\ sv.shots # <<>>
    /\ \A i \in 1..Len(sv.shots) : \A k \in PassageKeys \cap HeaderKeys(sv) :
           ShotGet(sv.shots[i], k).t # "none"

SameShots(was, now) ==
    /\ now.shot_header = was.shot_header
    /\ Len(now.shots) = Len(was.shots)
    /\ \A i \in 1..Len(was.shots) :
         /\ \A k \in (ReadingKeys \cup PassageKeys \cup StationKeys) \cap HeaderKeys(was) :
                i <= Len(now.shots)
                => CameBack(k, ShotGet(was.shots[i], k), ShotGet(now.shots[i], k))
         /\ i <= Len(now.shots) => FlagChars(now.shots[i]) = FlagChars(was.shots[i])

\* C1: a survey with a recorded shot header that is written out and read back
\* comes back with the same header order, as many shots, and in every shot the
\* same field values (numbers at the output's precision, an absent value still
\* absent, an open passage dimension still open, FROM and TO unchanged) and
\* the same flag characters
C1_RoundTrip ==
    (rt_pc = "parsed" /\ Writable(Get(rt_survey)))
    => /\ Get(rt_parsed).err = ""
       /\ Get(rt_parsed).v # None
       /\ SameShots(Get(rt_survey), Get(Get(rt_parsed).v))

-----------------------------------------------------------------------------
(* Properties of the data-file parser *)

\* the blocks of the file between form feeds, trimmed, without a last block
\* that is just SUB and without the empty ones
WithoutSub(trimmed) ==
    IF trimmed[Len(trimmed)] = <<SUB>> THEN SubSeq(trimmed, 1, Len(trimmed) - 1)
    ELSE trimmed
Trimmed(raw) == [i \in 1..Len(raw) |-> Strip(raw[i])]
BlocksOf(contents) ==
    SelectSeq(WithoutSub(Trimmed(SplitOn(contents, <<FF>>, Unlimited))),
              LAMBDA b : b # <<>>)

\* the outcome of the parse against what the survey parser makes of each block
AllOrNothing(outs) ==
    /\ dp_pc = "returned"
       => /\ \A i \in 1..Len(outs) : outs[i].err = ""
          /\ dp_result = Some([i \in 1..Len(outs) |-> Get(outs[i].v)])
          /\ dp_error = ""
    /\ dp_pc = "raised"
       => /\ \E i \in 1..Len(outs) :
                /\ outs[i].err # ""
                /\ dp_error = outs[i].err
                /\ \A j \in 1..(i - 1) : outs[j].err = ""
          /\ dp_result = None
    /\ dp_pc \notin {"returned", "raised"} => dp_result = None
    /\ (dp_pc = "loop" /\ dp_strs = <<>>) => \A i \in 1..Len(outs) : outs[i].err = ""
BlockOutcomes(blocks) == [i \in 1..Len(blocks) |-> ParseSurvey(blocks[i])]

\* C5: parse either returns a DatFile with one Survey per non-empty block, in
\* file order, a final SUB block dropped, or, when some block fails to parse,
\* raises that failure and returns no DatFile, however many blocks parsed
\* before it
C5_AllOrNothing == AllOrNothing(BlockOutcomes(BlocksOf(dp_contents)))

\* a block fails after two surveys were parsed, and nothing is returned
C5_Witness ==
    /\ dp_pc = "raised"
    /\ Len(dp_surveys) = 2
    /\ dp_result = None

-----------------------------------------------------------------------------
(* Properties of writing a data file out and reading it back *)

NamesOf(surveys) == [i \in 1..Len(surveys) |-> surveys[i].name]

\* C11: what DatFile.write writes ends with SUB, for any number of surveys,
\* and reading it back succeeds and yields as many surveys, in the same order,
\* with the same names, whatever their number of shots and cave names
C11_Framing ==
    /\ dp_pc # "unwritten" => dp_contents # <<>> /\ dp_contents[Len(dp_contents)] = SUB
    /\ dp_pc \in {"returned", "raised"}
       => /\ dp_pc = "returned"
          /\ dp_result # None
          /\ NamesOf(Get(dp_result)) = NamesOf(dw_surveys)

-----------------------------------------------------------------------------
(* Properties of the plot parser *)

\* the control codes the plot format names
KnownCodes == {"Z", "S", "G", "O", "N", "M", "D", "d", "X", "P", "C", "R", SUB}
IsUnknownLine(line) == line # <<>> /\ line[1] \notin KnownCodes
UnknownRead == pl_pc = "loop" /\ pl_file' # pl_file /\ IsUnknownLine(Last(pl_file'))
KnownLines(lines) == SelectSeq(lines, LAMBDA line : ~IsUnknownLine(line))
PltOutcome(st) == <<IF st.err = "" THEN Some(st.plt) ELSE None, st.err>>

\* C12: a line whose first character is not one of Z S G O N M D d X P C R
\* or SUB ends a strict parse with ParseException and no Plot; a lenient
\* parse leaves the plot and the open segment as they are and goes on with
\* the lines that follow, so that its outcome is that of the file without
\* its unknown lines
C12_UnknownCode ==
    /\ [][UnknownRead =>
            IF pl_strict
            THEN pl_pc' = "raised" /\ pl_error' = "ParseException" /\ pl_result' = None
            ELSE pl_pc' = "loop" /\ pl_plt' = pl_plt /\ pl_segment' = pl_segment]_vars
    /\ [](pl_pc = "raised" => pl_result = None)
    /\ [](pl_pc \in {"returned", "raised"} /\ ~pl_strict
            => <<pl_result, pl_error>>
               = PltOutcome(PltRun(PltState(Plot(<<"p">>), None, ""), FALSE,
                                   KnownLines(pl_file))))
C12_Witness ==
    /\ pl_pc = "returned" /\ ~pl_strict
    /\ \E i \in 1..(Len(pl_file) - 1) : IsUnknownLine(pl_file[i])
    /\ Len(Get(pl_result).segments) = 1

\* the lines read so far that carry one of the given control codes
LinesWith(codes) == {i \in 1..Len(pl_file) : pl_file[i][1] \in codes}
Greatest(S) == CHOOSE x \in S : \A y \in S : y <= x
KthOf(S, k) == CHOOSE x \in S : Cardinality({y \in S : y < x}) = k - 1
\* the N line a line at x falls under, and the N line still open at the end
HeaderBefore(x) == Greatest({n \in LinesWith({"N"}) : n < x})
OpenHeaders == {n \in LinesWith({"N"}) : \A x \in LinesWith({"X"}) : x < n}
\* what a header and a command line say, and what a segment holds of them
HeaderName(line) == SplitWords(Tail(line), Unlimited)[1]
LineCommand(line) == <<line[1], Tail(SplitWords(Tail(line), Unlimited)[4])>>
LinesWithin(n, x) == [j \in 1..(x - n - 1) |-> LineCommand(pl_file[n + j])]
CommandsOf(segment) ==
    [j \in 1..Len(segment.commands) |-> <<segment.commands[j].cmd, segment.commands[j].name>>]
IsGroup(segment, n, x) ==
    /\ segment.name = HeaderName(pl_file[n])
    /\ CommandsOf(segment) = LinesWithin(n, x)

\* C23: while no line has raised, the plot's segments are the N..X groups of
\* the lines read, in file order: the k-th segment is named by the last N
\* line before the k-th X line, holds the M, D and d lines between the two,
\* in file order, and has the bounds of the X line; after an X line no
\* segment is open; a segment opened by N and not closed by X is the open
\* segment, holding the commands after its N line, and is not in the plot
C23_SegmentLifecycle ==
    pl_plt # None /\ pl_error = "" =>
        /\ Len(Get(pl_plt).segments) = Cardinality(LinesWith({"X"}))
        /\ \A k \in 1..Len(Get(pl_plt).segments) :
              /\ IsGroup(Get(pl_plt).segments[k], HeaderBefore(KthOf(LinesWith({"X"}), k)),
                         KthOf(LinesWith({"X"}), k))
              /\ Get(pl_plt).segments[k].bounds
                   = Some(<<RInt(1), RInt(2), RInt(3), RInt(4), RInt(5), RInt(6)>>)
        /\ IF OpenHeaders = {} THEN pl_segment = None
           ELSE /\ pl_segment # None
                /\ IsGroup(Get(pl_segment), Greatest(OpenHeaders), Len(pl_file) + 1)
                /\ Get(pl_segment).bounds = None
C23_Witness ==
    /\ pl_pc = "returned" /\ pl_error = ""
    /\ Len(pl_file) = 6
    /\ Len(Get(pl_result).segments) = 2
    /\ Len(Get(pl_result).segments[1].commands) = 2

\* the words of the Z line that was read last
BoundsRead == pl_plt # None /\ pl_error = "" /\ pl_file # <<>> /\ Last(pl_file)[1] = "Z"
BoundsWords == SplitWords(Tail(Last(pl_file)), Unlimited)
WordValues(w, is) == [i \in 1..Len(is) |-> ParseFloat(w[is[i]]).val]

\* C24: after a Z line the plot's bounds are the first six tokens as floats;
\* the error distance is absent after the form of six floats and is the float
\* value of the eighth token after the form of eight tokens
C24_BoundsAndEdist ==
    BoundsRead =>
        /\ Get(pl_plt).bounds = Some(WordValues(BoundsWords, <<1, 2, 3, 4, 5, 6>>))
        /\ Get(pl_plt).edist = IF Len(BoundsWords) = 8
                               THEN Some(ParseFloat(BoundsWords[8]).val) ELSE None

-----------------------------------------------------------------------------
(* Properties of the name-keyed containers *)

NamedAt(name) == {i \in 1..Len(lk_items) : lk_items[i].name = name}
LookedUpName == lk_out' # lk_out /\ Get(lk_out').item.t = "str"

\* C13: on each of the four containers, looking a name up gives the
\* earliest-added element of that name, also when later ones share it, raises
\* KeyError when no element has it, and leaves the container as it was
C13_Lookup ==
    [][LookedUpName =>
         /\ lk_items' = lk_items
         /\ Get(lk_out').out =
              IF NamedAt(Get(lk_out').item.v) = {} THEN Raise("KeyError")
              ELSE Ok(lk_items[Least(NamedAt(Get(lk_out').item.v))])]_vars
C13_Witness ==
    /\ lk_out # None /\ Get(lk_out).item.t = "str" /\ Get(lk_out).out.err = ""
    /\ \E i, j \in 1..Len(lk_items) :
         /\ i < j /\ lk_items[i].name = Get(lk_out).item.v /\ lk_items[j].name = Get(lk_out).item.v
         /\ Get(lk_out).out.v = lk_items[i]

-----------------------------------------------------------------------------
(* Properties of the file-format descriptor *)

\* character i and characters i..j of a descriptor, counted from 0
CharAt(fmt, i) == <<fmt[i + 1]>>
CharsAt(fmt, i, j) == SubSeq(fmt, i + 1, j + 1)
LastChar(fmt) == <<fmt[Len(fmt)]>>
SecondToLast(fmt) == <<fmt[Len(fmt) - 1]>>

\* C16: assigning a descriptor of fewer than 11 characters raises ValueError
\* and changes no field; otherwise characters 0-3 are the bearing, length,
\* passage and inclination units, 4-7 the passage-dimension order, the
\* shot-item order is 8-10 below length 15 and 8-12 from there on, the
\* backsight flag is 'N' below length 12, the last character at length 12 and
\* the second-to-last above, and the LRUD association is 'F' below length 13
\* and the last character from there on
Decoded(fmt, f) ==
    /\ f.bearing_units = CharAt(fmt, 0) /\ f.length_units = CharAt(fmt, 1)
    /\ f.passage_units = CharAt(fmt, 2) /\ f.inclination_units = CharAt(fmt, 3)
    /\ f.passage_dimension_order = CharsAt(fmt, 4, 7)
    /\ f.shot_item_order = IF Len(fmt) < 15 THEN CharsAt(fmt, 8, 10) ELSE CharsAt(fmt, 8, 12)
    /\ f.backsight = IF Len(fmt) < 12 THEN <<"N">>
                     ELSE IF Len(fmt) = 12 THEN LastChar(fmt) ELSE SecondToLast(fmt)
    /\ f.lrud_association = IF Len(fmt) < 13 THEN <<"F">> ELSE LastChar(fmt)
C16_Decode ==
    [][IF Len(ff_fmt') < 11
       THEN ff_result' = "ValueError" /\ ff_format' = ff_format
       ELSE ff_result' = "ok" /\ Decoded(ff_fmt', ff_format')]_vars
\* a descriptor of 13 characters was decoded after a short one was refused
C16_Witness ==
    /\ ff_result = "ok" /\ Len(ff_fmt) = 13
    /\ ff_format.backsight = <<"a">> /\ ff_format.lrud_association = <<"d">>
    /\ ff_format.shot_item_order = <<"L", "A", "D">>

\* C30: once a descriptor of 11 or more characters has been assigned, the
\* getter's text has 13 or 15 characters and equals the assigned text when that
\* had 13 or 15 characters; assigning the getter's text back succeeds and
\* changes none of the eight fields, so that the getter's text stays the same
C30_Reencode ==
    /\ [](ff_result = "ok" /\ ff_fmt # <<>> =>
            /\ Len(FileFormat(ff_format)) \in {13, 15}
            /\ Len(ff_fmt) \in {13, 15} => FileFormat(ff_format) = ff_fmt)
    /\ [][ff_fmt' = FileFormat(ff_format) =>
            ff_result' = "ok" /\ ff_format' = ff_format
            /\ FileFormat(ff_format') = FileFormat(ff_format)]_vars
\* the text of a descriptor of 16 characters, which has 15, was assigned back
C30_Witness ==
    /\ ff_result = "ok" /\ Len(ff_fmt) = 15
    /\ ff_fmt = FileFormat(ff_format)
    /\ ff_fmt \notin SampleFormats
    /\ ff_format.shot_item_order = <<"i", "j", "k", "l", "m">>
    /\ ff_format.backsight = <<"o">> /\ ff_format.lrud_association = <<"p">>

-----------------------------------------------------------------------------
(* Properties of the survey-string parser *)

\* the same layout with no column replaced, and the survey parsed from it
CleanLayout(in) == [in EXCEPT !.col = 0, !.text = <<>>]
CleanSurvey(in) == Get(ParseSurvey(SurveyString(CleanLayout(in))).v)

\* C17: a shot line whose LENGTH, BEARING, INC, LEFT, UP, DOWN or RIGHT column
\* holds text that is no number and no no-data mark does not make the parse
\* fail: the survey is the one parsed from the intact text, except that the
\* field holds that text
C17_NonFatal ==
    ps_pc = "parsed" /\ Get(ps_in).col # 0
    => /\ Get(ps_out).err = ""
       /\ Get(Get(ps_out).v)
            = [CleanSurvey(Get(ps_in)) EXCEPT
                 !.shots[1].items[Get(ps_in).col][2] = V_Str(Get(ps_in).text)]

\* the text of a line after the label 'SURVEY NAME:', trimmed
AfterNameLabel(line) == Strip(SubSeq(line, Find(line, T_SURVEY_NAME) + Len(T_SURVEY_NAME), Len(line)))
NameLineFirst(lines) == StartsWith(Strip(lines[1]), T_SURVEY_NAME)

\* C20: when the first line of a survey string begins with 'SURVEY NAME:' the
\* cave name is empty and the survey name is the trimmed rest of that line,
\* whatever characters the name begins or ends with; otherwise the first line
\* is the cave name and the survey name is what follows the label on the
\* second line
NamedAsWritten(survey, lines) ==
    IF NameLineFirst(lines)
    THEN survey.cave_name = <<>> /\ survey.name = AfterNameLabel(Strip(lines[1]))
    ELSE survey.cave_name = Strip(lines[1]) /\ survey.name = AfterNameLabel(lines[2])
C20_NameLine ==
    ps_pc = "parsed" /\ Get(ps_out).err = ""
    => NamedAsWritten(Get(Get(ps_out).v), SplitLines(ps_text))

-----------------------------------------------------------------------------
(* Properties of the Format-B parser *)

\* a shot line: text with one '[', before it station names and three numbers,
\* after it the survey id
ShotText(line) == SplitOn(SplitOn(Strip(line), <<"\"">>, 1)[1], <<"[">>, Unlimited)
ShotToks(line) == SplitWords(ShotText(line)[1], Unlimited)
IsShotLine(line) ==
    /\ Len(ShotText(line)) = 2 /\ Len(ShotToks(line)) >= 3
    /\ \A i \in 0..2 : ParseFloat(ShotToks(line)[Len(ShotToks(line)) - i]).ok
StationCount(line) == Len(ShotToks(line)) - 3
LengthOf(line) == ParseFloat(ShotToks(line)[Len(ShotToks(line)) - 2]).val
SurveyIdOf(line) == RStripChars(RStrip(ShotText(line)[2]), {"]"})
BadArity(line) ==
    /\ IsShotLine(line)
    /\ StationCount(line) \notin {1, 2}
    /\ ~(StationCount(line) = 0 /\ LengthOf(line) = RInt(0))
UnknownSurvey(line, txtobj) ==
    /\ IsShotLine(line) /\ StationCount(line) \in {1, 2}
    /\ \A i \in 1..Len(txtobj.surveys) : txtobj.surveys[i].name # SurveyIdOf(line)
StructuralFailure ==
    /\ tx_pc = "data" /\ tx_lines # <<>>
    /\ BadArity(tx_lines[1]) \/ UnknownSurvey(tx_lines[1], Get(tx_txtobj))

\* C18: a shot line whose station names are not two, one, or none with LENGTH
\* 0, and a shot line whose survey id is not that of a declared survey, each
\* end the parse with ParseException, and no TxtFile is returned
C18_ParseFailure ==
    [][StructuralFailure
       => tx_pc' = "raised" /\ tx_error' = "ParseException" /\ tx_result' = None]_vars

-----------------------------------------------------------------------------
(* Properties of the project *)

\* the stations added with a location, in call order
FixedCalls == SelectSeq(pj_calls, LAMBDA location : location # None)

\* C19: without a base location the zone, datum and convergence are those of
\* the first station that was added with a location, whatever was added
\* later; with a base location no add_linked_station changes them
C19_UtmSeeding ==
    /\ [](pj_base = None /\ FixedCalls # <<>> => pj_utm = UtmOf(Get(FixedCalls[1])))
    /\ [][pj_base # None /\ pj_calls' # pj_calls => pj_utm' = pj_utm]_vars

-----------------------------------------------------------------------------
(* Properties of the inclination histogram *)

\* the shots taken whose absolute corrected inclination is at least 60
HighShots ==
    {i \in 1..Len(hi_shots) :
        RAbs(NumOf(Inc(hi_shots[i])))[1] >= HighAngle * RAbs(NumOf(Inc(hi_shots[i])))[2]}

\* C25: the reported high-angle count is the number of shots whose absolute
\* corrected inclination is 60 or more, the sum of the buckets from the one
\* of 60 up to and including the one of 90
C25_HighAngleCount ==
    hi_pc = "done" =>
        /\ hi_high_n = Cardinality(HighShots)
        /\ hi_high_n = SumInts(SliceWithLast(hi_histogram, HighAngle \div BinSize))

-----------------------------------------------------------------------------
(* Properties of the Format-B to Format-A converter *)

\* the shots converted so far for which the claim expects inferred values
InferenceExpected(e) == e.calculate_lrud /\ ~IsSplay(e.inshot) /\ e.splays > 0

\* C26: of the shots converted, a non-splay shot whose FROM station has at
\* least one splay gets non-negative LEFT, RIGHT, UP and DOWN when inference
\* is enabled; every other shot (a splay, a shot whose FROM station has no
\* splays, any shot when inference is disabled) gets the no-data passage
\* value -9.90 for all four
C26_LrudGating ==
    \A i \in 1..Len(cv_log) :
        IF InferenceExpected(cv_log[i])
        THEN \A key \in PassageKeys : ShotGet(cv_log[i].outshot, key).n >= 0
        ELSE \A key \in PassageKeys : ShotGet(cv_log[i].outshot, key) = V_Num(NoPassage)

\* the splays among the first i conversions that leave the station `from`
SplaysConverted(from, i) ==
    {j \in 1..i : IsSplay(cv_log[j].inshot) /\ cv_log[j].inshot.FROM = from}

\* C27: a converted splay gets the TO name FROM.sNNN, NNN being the number of
\* splays converted so far from its FROM station, itself included, in three
\* digits; a converted non-splay shot keeps its TO; _splay_counts holds for
\* every station the number of splays converted from it; and no two
\* converted splays have the same TO
C27_SplayNames ==
    /\ \A i \in 1..Len(cv_log) :
          ShotGet(cv_log[i].outshot, K_TO).s =
              IF IsSplay(cv_log[i].inshot)
              THEN SplayName(cv_log[i].inshot.FROM,
                             Cardinality(SplaysConverted(cv_log[i].inshot.FROM, i)))
              ELSE <<Get(cv_log[i].inshot.TO)>>
    /\ \A st \in Stations : cv_counts[st] = Cardinality(SplaysConverted(st, Len(cv_log)))
    /\ \A i, j \in 1..Len(cv_log) :
          i # j /\ IsSplay(cv_log[i].inshot) /\ IsSplay(cv_log[j].inshot)
              => ShotGet(cv_log[i].outshot, K_TO) # ShotGet(cv_log[j].outshot, K_TO)
C27_Witness ==
    /\ cv_pc = "idle" /\ Len(cv_log) = 3 /\ Len(cv_out) = 1
    /\ ~IsSplay(cv_log[2].inshot)
    /\ ShotGet(cv_log[1].outshot, K_TO).s = <<"A", ".", "s", "0", "0", "1">>
    /\ ShotGet(cv_log[3].outshot, K_TO).s = <<"A", ".", "s", "0", "0", "2">>

-----------------------------------------------------------------------------
(* Properties of the project-file parser *)

\* the linked-file entries of a project file as the format describes them: a
\* '#' line ending in ';' is an entry, a '#' line not ending in ';' opens one
\* that takes every non-blank line up to and including the next line ending in
\* ';'; the filename of an entry is its text up to the first ',' or ';'
EntryName(text) == SubSeq(text, 1, Least({i \in 1..Len(text) : text[i] \in {",", ";"}}) - 1)
NoEntries == [open |-> FALSE, text |-> <<>>, names |-> <<>>]
EntryAfter(sc, line) ==
    IF line = <<>> THEN sc
    ELSE IF sc.open
    THEN IF EndsWith(line, ";")
         THEN [open |-> FALSE, text |-> <<>>, names |-> Append(sc.names, EntryName(sc.text \o line))]
         ELSE [sc EXCEPT !.text = @ \o line]
    ELSE IF line[1] # "#" THEN sc
    ELSE IF EndsWith(line, ";")
    THEN [sc EXCEPT !.names = Append(@, EntryName(Tail(line)))]
    ELSE [open |-> TRUE, text |-> Tail(line), names |-> sc.names]
RECURSIVE EntryScan(_)
EntryScan(lines) ==
    IF lines = <<>> THEN NoEntries
    ELSE EntryAfter(EntryScan(SubSeq(lines, 1, Len(lines) - 1)), Strip(lines[Len(lines)]))

\* C21: while no line has raised, the linked files collected are the
\* filenames of the entries closed so far, single-line and multi-line, in file
\* order; and a line read while an entry is open is taken into the entry: it
\* neither changes the base location nor raises, whatever its first character
C21_Continuation ==
    /\ [](mk_pc = "loop" => mk_linked = EntryScan(mk_file).names)
    /\ [][mk_pc = "loop" /\ mk_file' # mk_file /\ EntryScan(mk_file).open
            => mk_base' = mk_base /\ mk_error' = ""]_vars

\* no line of the file begins like a base-location, datum or convergence line
NoBaseLines == \A i \in 1..Len(mk_file) : mk_file[i][1] \notin {"@", "&", "%"}

\* C22: the parse of a project file without a base-location line returns a
\* Project whose base location is absent and whose linked files are the
\* linked files of the project file, parsed and attached in file order
C22_OptionalBase ==
    mk_pc # "loop" /\ NoBaseLines =>
        /\ mk_pc = "returned"
        /\ Get(mk_project).base_location = None
        /\ Get(mk_project).linked_files
             = [i \in 1..Len(mk_linked) |-> LinkedDatFile(mk_linked[i])]

====
